---- MODULE Spec2Model ----
(***************************************************************************)
(* Greepy (src/src/App.tsx): the pane grid, the pty creation queue and the *)
(* workspace tabs, as state machines.                                      *)
(*                                                                         *)
(*   SpecGrid   - getGrid applied to a drawn pane count                    *)
(*   SpecCreate - enqueuePtyCreate, createWithRetry, TerminalPane effect,  *)
(*                ServerManager.startServer                                *)
(*   SpecOrch   - MainApp: tabs, panes, activeId, split / close / launch   *)
(*   SpecCap    - MainApp: one workspace split up to the 36-pane ceiling   *)
(*   SpecRound  - buildSnapshot followed by loadTabRuntime                  *)
(*   SpecRecents- projects opened one after the other                      *)
(*   SpecBusy   - the busy classifier of one TerminalPane                  *)
(*   SpecBusyLive - the same with timers and frames that do run            *)
(*   SpecListen - pty:data listeners and teardown of TerminalPanes         *)
(*   SpecListenLive - the same with awaited promises that settle           *)
(*   SpecCreateLive - SpecCreate with calls that return, timers that fire  *)
(*   SpecStartup - the creation queue with startup commands of the panes   *)
(*   SpecServer - ServerManager: start, stop and the autostart effect      *)
(*   SpecTabs   - MainApp: up to three tabs opened, switched and deleted   *)
(***************************************************************************)
EXTENDS Integers, Sequences, FiniteSets, TLC

\* ------------------------------------------------------------------------
\* Bounds of the model
\* ------------------------------------------------------------------------
MaxCount == 42

\* panes mounted in the creation model, server entries of the ServerManager
MaxCreatePanes == 3
MaxServers == 1

\* SpecCap: pane ids createRuntimeId hands out, splits followed up to MaxPanes
\* panes (past the ceiling of 36), panes closed from CapCloseFrom panes on
MaxPaneIds == 41
MaxPanes == 38
CapCloseFrom == 35
\* SpecOrch: pane ids and tab ids createRuntimeId hands out
MaxOrchPaneIds == 5
MaxTabIds == 2
\* SpecRound: panes of the live state a snapshot is built from
MaxRoundPanes == 3
\* SpecBusy: the clock starts at StartTime and runs MaxElapsed ms, in steps of
\* TickMs
StartTime == 10000
MaxElapsed == 4000
TickMs == 500
\* SpecRecents: pane ids createRuntimeId hands out (one per project opened)
MaxRecentsPaneIds == 5
\* SpecListen: TerminalPanes, and pty:data events emitted in all
MaxListenPanes == 2
MaxChunks == 4
\* SpecTabs: tab ids and pane ids createRuntimeId hands out
MaxOpenTabIds == 3
MaxTabPaneIds == 6
\* SpecServer: ptyIds ServerManager.startServer makes for one server entry
MaxServerStarts == 8

\* ------------------------------------------------------------------------
\* Program constants
\* ------------------------------------------------------------------------
MAX_SPLITS == 6

\* Number.MAX_SAFE_INTEGER, narrowed to the largest integer TLC represents
MAX_SAFE_INTEGER == 2147483647

Orientations == {"horizontal", "vertical"}

VARIABLES
  gCount,      \* getGrid: the count argument
  gResult      \* getGrid: preferred -> result record, or NoGrid before the call

VARIABLES
  ptyCreateQueue,  \* the promise chain: panes whose task is chained and not settled
  lastSettle,      \* how the task the chain tail was built on settled
  pc,              \* per pane: position of setup / createWithRetry
  attempt,         \* per pane: loop variable of createWithRetry
  error,           \* per pane: the error state ("Terminal failed to start")
  disposed,        \* per pane: the effect cleanup has run
  runState,        \* ServerManager: per server "stopped" | "creating" | "running"
  inflight,        \* pty_create invocations issued and not yet returned
  createLog,       \* panes whose task invoked pty_create, one entry per invocation, in order
  enqueueLog,      \* panes in the order their task was passed to enqueuePtyCreate
  failures,        \* per pane: pty_create invocations that returned an error
  startupCommand,  \* per pane: the startupCommand prop its setup() closed over
  startupCommandExecuted,  \* the module-level Set of pane ids
  ptyWrites,       \* the pty_write invocations of setup(), in order
  autostart,       \* ServerManager: per server entry, its autostart flag
  closing,         \* ServerManager: per server, stopServer awaits pty_close
  serverPtyId,     \* ServerManager: per server, the number of ptyIds made for it
  lastServerEvent  \* ServerManager: per server, what set its runState last

VARIABLES
  tabs,               \* MainApp: sequence of [id, title, snapshot]
  activeTabId,
  panes,              \* MainApp: live pane list of the active tab
  activeId,
  lastSplit,
  fixedGridLayoutId,  \* a layout id or Null
  projectPath,
  workspaceName,
  isProjectReady,
  recentProjects,     \* paths, most recent first
  storedRecents,      \* localStorage["greepy.recentProjects"]
  storedSession,      \* localStorage["greepy.lastSession"], or NullSnapshot
  nextPaneId,         \* createRuntimeId("pane"): ids below it have been handed out
  nextTabId,          \* createRuntimeId("tab")
  lastOp,             \* the handler that ran last and the pane count it found
  mountedPanes,       \* ids of the panes whose TerminalPane is mounted
  ptyCloses           \* per pane id: the pty_close invocations issued for it

VARIABLES
  now,                  \* Date.now()
  termAlive,            \* TerminalPane: termRef.current is set
  markerVisible,        \* "esc to interrupt" is within the visible line range
  lastOutputAtRef,
  lastBusySignalAtRef,
  awaitingResponseRef,
  isWorkingRef,
  signalSyncRafRef,     \* an animation frame callback is requested
  signalSyncTimeoutRef, \* the time the recheck timer is due, or NoTimer
  lastEvent,            \* the callback that ran last
  lastChunk             \* the payload of the last pty:data event of the pane

VARIABLES
  setupAt,       \* per pane: how far setup() of the TerminalPane effect has got
  paneCleaned,   \* per pane: the effect cleanup has run
  listeners,     \* the panes whose pty:data listener is registered
  cleanupLog,    \* per pane: the calls its cleanup made, in order
  emitted,       \* the payload ids of the pty:data events, in order of emission
  written,       \* per pane: the events written to its terminal (positions in emitted)
  listenedFrom,  \* per pane: events emitted before its listener was registered
  listenedTo     \* per pane: events emitted before its listener was removed

gridVars == <<gCount, gResult>>
paneVars == <<setupAt, paneCleaned, listeners, cleanupLog, emitted, written,
              listenedFrom, listenedTo>>
busyVars == <<now, termAlive, markerVisible, lastOutputAtRef,
              lastBusySignalAtRef, awaitingResponseRef, isWorkingRef,
              signalSyncRafRef, signalSyncTimeoutRef, lastEvent, lastChunk>>
orchVars == <<tabs, activeTabId, panes, activeId, lastSplit, fixedGridLayoutId,
              projectPath, workspaceName, isProjectReady, recentProjects,
              storedRecents, storedSession,
              nextPaneId, nextTabId, lastOp, mountedPanes, ptyCloses>>
startVars == <<startupCommand, startupCommandExecuted, ptyWrites>>
serverVars == <<autostart, closing, serverPtyId, lastServerEvent>>
createVars == <<ptyCreateQueue, lastSettle, pc, attempt, error, disposed,
                runState, inflight, createLog, enqueueLog, failures,
                startVars, serverVars>>
vars == <<gCount, gResult, ptyCreateQueue, lastSettle, pc, attempt, error,
          disposed, runState, inflight, createLog, enqueueLog, failures,
          startupCommand, startupCommandExecuted, ptyWrites,
          autostart, closing, serverPtyId, lastServerEvent,
          tabs, activeTabId, panes, activeId, lastSplit, fixedGridLayoutId,
          projectPath, workspaceName, isProjectReady, recentProjects,
              storedRecents, storedSession,
          nextPaneId, nextTabId, lastOp, mountedPanes, ptyCloses,
          now, termAlive, markerVisible, lastOutputAtRef, lastBusySignalAtRef,
          awaitingResponseRef, isWorkingRef, signalSyncRafRef,
          signalSyncTimeoutRef, lastEvent, lastChunk,
          setupAt, paneCleaned, listeners, cleanupLog, emitted, written,
          listenedFrom, listenedTo>>

NoGrid == [rows |-> 0, cols |-> 0]

NoTimer == -1

\* no pty:data event yet
NoChunk ==
  [marker |-> FALSE, busyWord |-> FALSE, blank |-> TRUE,
   cr |-> FALSE, nl |-> FALSE, scrolls |-> FALSE]

\* a mounted TerminalPane before any input or output (822-830)
BusyIdle ==
  /\ now = StartTime
  /\ termAlive = TRUE
  /\ markerVisible = FALSE
  /\ lastOutputAtRef = 0
  /\ lastBusySignalAtRef = 0
  /\ awaitingResponseRef = FALSE
  /\ isWorkingRef = FALSE
  /\ signalSyncRafRef = FALSE
  /\ signalSyncTimeoutRef = NoTimer
  /\ lastEvent = "mount"
  /\ lastChunk = NoChunk

\* no TerminalPane has been mounted
PaneIdle ==
  /\ setupAt = [p \in 1..MaxListenPanes |-> "unmounted"]
  /\ paneCleaned = [p \in 1..MaxListenPanes |-> FALSE]
  /\ listeners = {}
  /\ cleanupLog = [p \in 1..MaxListenPanes |-> <<>>]
  /\ emitted = <<>>
  /\ written = [p \in 1..MaxListenPanes |-> <<>>]
  /\ listenedFrom = [p \in 1..MaxListenPanes |-> 0]
  /\ listenedTo = [p \in 1..MaxListenPanes |-> 0]

GridIdle ==
  /\ gCount = 1
  /\ gResult = [o \in Orientations |-> NoGrid]

\* ------------------------------------------------------------------------
\* getGrid (App.tsx 2151-2191)
\* ------------------------------------------------------------------------
Abs(x) == IF x < 0 THEN -x ELSE x

MathMax(a, b) == IF a >= b THEN a ELSE b

\* the for loop of getGrid: i runs while i <= Math.sqrt(safeCount)
RECURSIVE getGridScan(_, _, _)
getGridScan(safeCount, i, best) ==
  IF i * i > safeCount THEN best
  ELSE IF safeCount % i = 0 /\ Abs(i - (safeCount \div i)) < best.diff
       THEN getGridScan(safeCount, i + 1,
                        [rows |-> i, cols |-> safeCount \div i,
                         diff |-> Abs(i - (safeCount \div i))])
       ELSE getGridScan(safeCount, i + 1, best)

\* mutant of getGrid: the scan keeps the first divisor pair (1, count)
getGrid_firstPair(count, preferred) ==
  LET safeCount == MathMax(1, count)
  IN  IF preferred = "horizontal"
      THEN [rows |-> safeCount, cols |-> 1]
      ELSE [rows |-> 1, cols |-> safeCount]

\* mutant of getGrid: the orientation swap is lost, rows <= cols always
getGrid_noSwap(count, preferred) ==
  LET safeCount == MathMax(1, count)
      scanned == getGridScan(safeCount, 1,
                   [rows |-> 1, cols |-> safeCount, diff |-> MAX_SAFE_INTEGER])
  IN  [rows |-> scanned.rows, cols |-> scanned.cols]

\* mutant of getGrid: rows and cols of the result change places
getGrid_transposed(count, preferred) ==
  LET safeCount == MathMax(1, count)
      scanned == getGridScan(safeCount, 1,
                   [rows |-> 1, cols |-> safeCount, diff |-> MAX_SAFE_INTEGER])
  IN  IF preferred = "horizontal" /\ scanned.rows < scanned.cols
      THEN [rows |-> scanned.rows, cols |-> scanned.cols]
      ELSE [rows |-> scanned.cols, cols |-> scanned.rows]

getGrid(count, preferred) ==
  LET safeCount == MathMax(1, count)
      scanned == getGridScan(safeCount, 1,
                   [rows |-> 1, cols |-> safeCount, diff |-> MAX_SAFE_INTEGER])
      clamped == IF safeCount > MAX_SPLITS * MAX_SPLITS
                 THEN [rows |-> MAX_SPLITS, cols |-> MAX_SPLITS]
                 ELSE [rows |-> scanned.rows, cols |-> scanned.cols]
  IN  IF safeCount % clamped.rows # 0
      THEN IF preferred = "horizontal"
           THEN [rows |-> safeCount, cols |-> 1]
           ELSE [rows |-> 1, cols |-> safeCount]
      ELSE IF preferred = "horizontal" /\ clamped.rows < clamped.cols
           THEN [rows |-> clamped.cols, cols |-> clamped.rows]
      ELSE IF preferred = "vertical" /\ clamped.cols < clamped.rows
           THEN [rows |-> clamped.cols, cols |-> clamped.rows]
      ELSE clamped

\* ------------------------------------------------------------------------
\* MainApp (App.tsx 1448-3595): data
\* ------------------------------------------------------------------------
Null == "null"
Undefined == "undefined"
NullSnapshot == [isNull |-> TRUE]

GRID_LAYOUT_OPTIONS ==
  << [id |-> "grid-1",   rows |-> 1, cols |-> 1],
     [id |-> "grid-1x2", rows |-> 1, cols |-> 2],
     [id |-> "grid-2x2", rows |-> 2, cols |-> 2],
     [id |-> "grid-2x3", rows |-> 2, cols |-> 3],
     [id |-> "grid-2x4", rows |-> 2, cols |-> 4],
     [id |-> "grid-2x5", rows |-> 2, cols |-> 5],
     [id |-> "grid-3x3", rows |-> 3, cols |-> 3],
     [id |-> "grid-4x4", rows |-> 4, cols |-> 4] >>

LayoutIds == {GRID_LAYOUT_OPTIONS[i].id : i \in 1..Len(GRID_LAYOUT_OPTIONS)}

getGridLayout(id) ==
  IF id \in LayoutIds
  THEN GRID_LAYOUT_OPTIONS[CHOOSE i \in 1..Len(GRID_LAYOUT_OPTIONS) :
                             GRID_LAYOUT_OPTIONS[i].id = id]
  ELSE GRID_LAYOUT_OPTIONS[1]

getGridCapacity(layout) == layout.rows * layout.cols

\* project folders the user picks, names typed into the workspace form
Paths == {"/a", "/b"}
FormNames == {""}

getFolderName(path) ==
  CASE path = "/a" -> "a"
    [] path = "/b" -> "b"
    [] path = "/c" -> "c"
    [] path = "/d" -> "d"
    [] path = "/e" -> "e"
    [] path = "/f" -> "f"
    [] path = "/g" -> "g"
    [] OTHER -> ""

Trim(str) ==
  CASE str = " Dev " -> "Dev"
    [] str = " " -> ""
    [] OTHER -> str

\* `Terminal ${index}` and `${workspace} - Terminal ${index}`
\* the empty pane name
NoName == [ws |-> "", n |-> 0]
TerminalName(index) == [ws |-> "", n |-> index]
WorkspaceTerminalName(ws, index) == [ws |-> ws, n |-> index]

PaneIds(ps) == {ps[i].id : i \in 1..Len(ps)}

TabIds == {tabs[i].id : i \in 1..Len(tabs)}

\* createRuntimeId (754-757): a random id, never one handed out before; the
\* ids are numbered in the order they are handed out
createRuntimeId(next) == next

createPane(next, index) ==
  [id |-> createRuntimeId(next), name |-> TerminalName(index)]

\* current.findIndex((pane) => pane.id === id), 0-based, -1 when absent
findIndex(ps, id) ==
  IF id \in PaneIds(ps)
  THEN (CHOOSE i \in 1..Len(ps) : ps[i].id = id) - 1
  ELSE -1

\* next.splice(insertIndex, 0, pane)
splice(ps, insertIndex, pane) ==
  SubSeq(ps, 1, insertIndex) \o <<pane>> \o SubSeq(ps, insertIndex + 1, Len(ps))

tabIndex(ts, tabId) ==
  IF \E i \in 1..Len(ts) : ts[i].id = tabId
  THEN CHOOSE i \in 1..Len(ts) : ts[i].id = tabId
  ELSE 0

\* mutant of buildSnapshot: the pinned layout is not recorded
buildSnapshot_noLayout(nextProjectPath, nextWorkspaceName, nextPanes, nextActiveId, nextLastSplit, nextGridLayoutId) ==
  IF Trim(nextProjectPath) = "" \/ Len(nextPanes) = 0 THEN NullSnapshot
  ELSE [projectPath |-> nextProjectPath,
        workspaceName |-> nextWorkspaceName,
        panes |-> [i \in 1..Len(nextPanes) |->
                     [id |-> nextPanes[i].id, name |-> nextPanes[i].name]],
        activeId |-> nextActiveId,
        lastSplit |-> nextLastSplit,
        gridLayoutId |-> Undefined]

\* buildSnapshot (1629-1647); updatedAt is left out
buildSnapshot(nextProjectPath, nextWorkspaceName, nextPanes, nextActiveId, nextLastSplit, nextGridLayoutId) ==
  IF Trim(nextProjectPath) = "" \/ Len(nextPanes) = 0 THEN NullSnapshot
  ELSE [projectPath |-> nextProjectPath,
        workspaceName |-> nextWorkspaceName,
        panes |-> [i \in 1..Len(nextPanes) |->
                     [id |-> nextPanes[i].id, name |-> nextPanes[i].name]],
        activeId |-> nextActiveId,
        lastSplit |-> nextLastSplit,
        gridLayoutId |-> IF nextGridLayoutId = Null THEN Undefined
                         ELSE nextGridLayoutId]

\* mutant of RepairActiveId: the repair effect is missing
RepairActiveId_none(ps, a) == a

\* the activeId repair effect (1802-1806)
RepairActiveId(ps, a) ==
  IF a \notin PaneIds(ps) /\ Len(ps) > 0 THEN ps[1].id ELSE a

\* mutant of closePanes: the last pane can be closed
closePanes_unguarded(current, id) ==
  SelectSeq(current, LAMBDA pane : pane.id # id)

\* mutant of closePanes: the first pane is removed, whichever id is given
closePanes_first(current, id) ==
  IF Len(current) <= 1 THEN current ELSE Tail(current)

\* the setPanes updater of handleClose (2286-2290)
closePanes(current, id) ==
  IF Len(current) <= 1 THEN current
  ELSE SelectSeq(current, LAMBDA pane : pane.id # id)

\* mutant of splitPanes: the new pane goes to the end of the list
splitPanes_append(current, active, next) ==
  Append(current, createPane(next, Len(current) + 1))

\* the setPanes updater of the split handlers (2261-2268, 2970-2980)
splitPanes(current, active, next) ==
  LET activeIndex == findIndex(current, active)
      insertIndex == IF activeIndex = -1 THEN Len(current) ELSE activeIndex + 1
  IN  splice(current, insertIndex, createPane(next, Len(current) + 1))

\* updateRecentProjects (1883-1890); lastOpened is left out
MAX_RECENTS == 6

\* mutant of updateRecentProjects: the list is not cut to MAX_RECENTS
updateRecentProjects_uncut(recents, path) ==
  <<path>> \o SelectSeq(recents, LAMBDA item : item # path)

updateRecentProjects(recents, path) ==
  LET next == <<path>> \o SelectSeq(recents, LAMBDA item : item # path)
  IN  SubSeq(next, 1, IF Len(next) < MAX_RECENTS THEN Len(next) ELSE MAX_RECENTS)

\* mutant of loadTabRuntime: the first pane is made active, whatever the
\* snapshot recorded
loadTabRuntime_firstActive(target, next) ==
  IF target.snapshot # NullSnapshot
  THEN LET snapshot == target.snapshot
           name == IF Trim(snapshot.workspaceName) # ""
                   THEN Trim(snapshot.workspaceName)
                   ELSE IF getFolderName(snapshot.projectPath) # ""
                        THEN getFolderName(snapshot.projectPath)
                        ELSE target.title
       IN  [projectPath |-> snapshot.projectPath,
            workspaceName |-> name,
            isProjectReady |-> TRUE,
            panes |-> [i \in 1..Len(snapshot.panes) |->
                         [id |-> snapshot.panes[i].id,
                          name |-> IF snapshot.panes[i].name = NoName
                                   THEN TerminalName(i)
                                   ELSE snapshot.panes[i].name]],
            activeId |-> snapshot.panes[1].id,
            lastSplit |-> snapshot.lastSplit,
            fixedGridLayoutId |-> IF snapshot.gridLayoutId = Undefined
                                  THEN Null ELSE snapshot.gridLayoutId]
  ELSE LET pane == createPane(next, 1)
       IN  [projectPath |-> "",
            workspaceName |-> target.title,
            isProjectReady |-> FALSE,
            panes |-> <<pane>>,
            activeId |-> pane.id,
            lastSplit |-> "horizontal",
            fixedGridLayoutId |-> Null]

\* loadTabRuntime (1682-1735): the live state a tab is rehydrated to
loadTabRuntime(target, next) ==
  IF target.snapshot # NullSnapshot
  THEN LET snapshot == target.snapshot
           name == IF Trim(snapshot.workspaceName) # ""
                   THEN Trim(snapshot.workspaceName)
                   ELSE IF getFolderName(snapshot.projectPath) # ""
                        THEN getFolderName(snapshot.projectPath)
                        ELSE target.title
       IN  [projectPath |-> snapshot.projectPath,
            workspaceName |-> name,
            isProjectReady |-> TRUE,
            panes |-> [i \in 1..Len(snapshot.panes) |->
                         [id |-> snapshot.panes[i].id,
                          name |-> IF snapshot.panes[i].name = NoName
                                   THEN TerminalName(i)
                                   ELSE snapshot.panes[i].name]],
            activeId |-> IF snapshot.activeId \in PaneIds(snapshot.panes)
                         THEN snapshot.activeId
                         ELSE snapshot.panes[1].id,
            lastSplit |-> snapshot.lastSplit,
            fixedGridLayoutId |-> IF snapshot.gridLayoutId = Undefined
                                  THEN Null ELSE snapshot.gridLayoutId]
  ELSE LET pane == createPane(next, 1)
       IN  [projectPath |-> "",
            workspaceName |-> target.title,
            isProjectReady |-> FALSE,
            panes |-> <<pane>>,
            activeId |-> pane.id,
            lastSplit |-> "horizontal",
            fixedGridLayoutId |-> Null]

\* mutant of tabGrid: the pinned layout is ignored
tabGrid_computed(snapshot) ==
  getGrid(Len(snapshot.panes), snapshot.lastSplit)

\* the grid a tab surface is rendered with (3551-3562)
tabGrid(snapshot) ==
  LET layout == getGridLayout(snapshot.gridLayoutId)
  IN  IF snapshot.gridLayoutId # Undefined
         /\ Len(snapshot.panes) <= getGridCapacity(layout)
      THEN [rows |-> layout.rows, cols |-> layout.cols]
      ELSE getGrid(Len(snapshot.panes), snapshot.lastSplit)

\* the tab surface needs getGrid (no pinned layout fits)
callsGetGrid(snapshot) ==
  ~ (snapshot.gridLayoutId # Undefined
     /\ Len(snapshot.panes) <= getGridCapacity(getGridLayout(snapshot.gridLayoutId)))

OrchStart ==
  /\ tabs = <<[id |-> 1, title |-> "Tab 1", snapshot |-> NullSnapshot]>>
  /\ activeTabId = 1
  /\ panes = <<[id |-> 1, name |-> TerminalName(1)]>>
  /\ activeId = 1
  /\ lastSplit = "horizontal"
  /\ fixedGridLayoutId = Null
  /\ projectPath = ""
  /\ workspaceName = "Workspace"
  /\ isProjectReady = FALSE
  /\ nextPaneId = 2
  /\ nextTabId = 2
  /\ storedSession = NullSnapshot
  /\ lastOp = <<"start", 1>>
  /\ mountedPanes = {}
  /\ ptyCloses = <<>>

OrchIdle == OrchStart /\ recentProjects = <<>> /\ storedRecents = <<>>

\* ------------------------------------------------------------------------
\* Creation queue (App.tsx 741-750), TerminalPane effect (921-1115),
\* ServerManager.startServer (1250-1263)
\* ------------------------------------------------------------------------
CPanes == 1..MaxCreatePanes
Servers == 1..MaxServers

PaneCall(p) == <<"pane", p>>
ServerCall(s) == <<"srv", s>>

Range(q) == {q[i] : i \in 1..Len(q)}

Remove(q, x) == SelectSeq(q, LAMBDA y : y # x)

\* startupCommands[pane.id] of a pane no agent was allocated to
NoCommand == Undefined

\* the agent commands of the workspace form, trimmed by handleWorkspaceLaunch
AgentCommands == {"codex"}

CreateIdle ==
  /\ ptyCreateQueue = <<>>
  /\ lastSettle = "fulfilled"
  /\ pc = [p \in CPanes |-> "unmounted"]
  /\ attempt = [p \in CPanes |-> 0]
  /\ error = [p \in CPanes |-> FALSE]
  /\ disposed = [p \in CPanes |-> FALSE]
  /\ runState = [s \in Servers |-> "stopped"]
  /\ inflight = {}
  /\ createLog = <<>>
  /\ enqueueLog = <<>>
  /\ failures = [p \in CPanes |-> 0]
  /\ startupCommand = [p \in CPanes |-> NoCommand]
  /\ startupCommandExecuted = {}
  /\ ptyWrites = <<>>
  /\ autostart = [s \in Servers |-> FALSE]
  /\ closing = [s \in Servers |-> FALSE]
  /\ serverPtyId = [s \in Servers |-> 0]
  /\ lastServerEvent = [s \in Servers |-> "none"]

\* mutant of EnqueueTask: the new task is put in front of the waiting ones
EnqueueTask_front(q, p) == <<p>> \o q

\* enqueuePtyCreate: next = ptyCreateQueue.then(task, task) chains the task
\* behind every task chained before it
EnqueueTask(q, p) == Append(q, p)

\* mutant of TaskMayStart: the task is called at once, not chained
TaskMayStart_unchained(q, p) == p \in Range(q)

\* a chained task is called when the promise it was chained on has settled:
\* every task chained before it has settled and left the chain
TaskMayStart(q, p) == q # <<>> /\ p = Head(q)

\* mutant of TaskRunsAfter: ptyCreateQueue = ptyCreateQueue.then(task), a
\* rejection of one task is passed down the chain and skips the next task
TaskRunsAfter_poisoned(settled) == settled = "fulfilled"

\* ptyCreateQueue = next.catch(() => undefined) followed by .then(task, task):
\* the next task is called whether the previous one fulfilled or rejected
TaskRunsAfter(settled) == TRUE

\* mutant of ThrowsOnAttempt: the rethrow on the last attempt is lost
ThrowsOnAttempt_never(a) == FALSE

\* createWithRetry: catch (err) { if (attempt === 2) throw err; ... }
ThrowsOnAttempt(a) == a = 2

\* createWithRetry: for (let attempt = 0; attempt < 3; attempt += 1)
LoopContinues(a) == a < 3

\* setup() after `await enqueuePtyCreate(createWithRetry)` has fulfilled
\* (988-997): the startup command the closure holds is written once
writeStartupCommand(p) ==
  IF /\ startupCommand[p] # NoCommand
     /\ Trim(startupCommand[p]) # ""
     /\ p \notin startupCommandExecuted
  THEN /\ startupCommandExecuted' = startupCommandExecuted \cup {p}
       /\ ptyWrites' = Append(ptyWrites, [id |-> p,
                                          data |-> <<Trim(startupCommand[p]), "\r">>])
       /\ UNCHANGED startupCommand
  ELSE UNCHANGED startVars

\* TerminalPane effect: setup() runs up to `await enqueuePtyCreate(...)`; the
\* pane is rendered with startupCommand = startupCommands[pane.id] (3586),
\* command being what the launch allocated to it (2050-2060), NoCommand for a
\* pane made by a split
Mount(p, command) ==
  /\ pc[p] = "unmounted"
  /\ ~disposed[p]
  /\ pc' = [pc EXCEPT ![p] = "queued"]
  /\ ptyCreateQueue' = EnqueueTask(ptyCreateQueue, p)
  /\ enqueueLog' = Append(enqueueLog, p)
  /\ startupCommand' = [startupCommand EXCEPT ![p] = command]
  /\ UNCHANGED <<startupCommandExecuted, ptyWrites, serverVars>>
  /\ UNCHANGED <<lastSettle, attempt, error, disposed, runState, inflight,
                 createLog, failures>>
  /\ UNCHANGED <<gridVars, orchVars, busyVars, paneVars>>

\* the chain calls createWithRetry of pane p: attempt = 0, first pty_create
StartTask(p) ==
  /\ pc[p] = "queued"
  /\ TaskMayStart(ptyCreateQueue, p)
  /\ IF TaskRunsAfter(lastSettle)
     THEN /\ pc' = [pc EXCEPT ![p] = "creating"]
          /\ attempt' = [attempt EXCEPT ![p] = 0]
          /\ inflight' = inflight \cup {PaneCall(p)}
          /\ createLog' = Append(createLog, p)
          /\ UNCHANGED <<ptyCreateQueue, lastSettle, error>>
     ELSE \* next rejects without the task being called; setup's catch runs
          /\ pc' = [pc EXCEPT ![p] = "failed"]
          /\ error' = [error EXCEPT ![p] = ~disposed[p]]
          /\ ptyCreateQueue' = Remove(ptyCreateQueue, p)
          /\ UNCHANGED <<attempt, inflight, createLog, lastSettle>>
  /\ UNCHANGED <<disposed, runState, enqueueLog, failures, startVars, serverVars>>
  /\ UNCHANGED <<gridVars, orchVars, busyVars, paneVars>>

\* invoke("pty_create") of pane p returns; ok is the backend's answer
CreateReturns(p, ok) ==
  /\ pc[p] = "creating"
  /\ PaneCall(p) \in inflight
  /\ inflight' = inflight \ {PaneCall(p)}
  /\ IF ok
     THEN \* return: createWithRetry fulfils, the await in setup continues
          /\ pc' = [pc EXCEPT ![p] = "ready"]
          /\ ptyCreateQueue' = Remove(ptyCreateQueue, p)
          /\ lastSettle' = "fulfilled"
          /\ writeStartupCommand(p)
          /\ UNCHANGED <<error, failures>>
     ELSE /\ failures' = [failures EXCEPT ![p] = @ + 1]
          /\ UNCHANGED startVars
          /\ IF ThrowsOnAttempt(attempt[p])
             THEN \* throw err: the task rejects, setup sets the error state
                  /\ pc' = [pc EXCEPT ![p] = "failed"]
                  /\ error' = [error EXCEPT ![p] = ~disposed[p]]
                  /\ ptyCreateQueue' = Remove(ptyCreateQueue, p)
                  /\ lastSettle' = "rejected"
             ELSE \* await delay(150)
                  /\ pc' = [pc EXCEPT ![p] = "backoff"]
                  /\ UNCHANGED <<error, ptyCreateQueue, lastSettle>>
  /\ UNCHANGED <<attempt, disposed, runState, createLog, enqueueLog, serverVars>>
  /\ UNCHANGED <<gridVars, orchVars, busyVars, paneVars>>

\* delay(150) elapses: attempt += 1, next turn of the loop
BackoffElapsed(p) ==
  /\ pc[p] = "backoff"
  /\ attempt' = [attempt EXCEPT ![p] = @ + 1]
  /\ IF LoopContinues(attempt[p] + 1)
     THEN /\ pc' = [pc EXCEPT ![p] = "creating"]
          /\ inflight' = inflight \cup {PaneCall(p)}
          /\ createLog' = Append(createLog, p)
          /\ UNCHANGED <<ptyCreateQueue, lastSettle, startVars>>
     ELSE \* the loop ends without a return: the task fulfils
          /\ pc' = [pc EXCEPT ![p] = "ready"]
          /\ ptyCreateQueue' = Remove(ptyCreateQueue, p)
          /\ lastSettle' = "fulfilled"
          /\ writeStartupCommand(p)
          /\ UNCHANGED <<inflight, createLog>>
  /\ UNCHANGED <<error, disposed, runState, enqueueLog, failures, serverVars>>
  /\ UNCHANGED <<gridVars, orchVars, busyVars, paneVars>>

\* TerminalPane effect cleanup: disposed = true ... invoke("pty_close", {id});
\* the error state goes with the unmounted component
Unmount(p) ==
  /\ pc[p] # "unmounted"
  /\ ~disposed[p]
  /\ disposed' = [disposed EXCEPT ![p] = TRUE]
  /\ error' = [error EXCEPT ![p] = FALSE]
  /\ UNCHANGED <<ptyCreateQueue, lastSettle, pc, attempt, runState, inflight,
                 createLog, enqueueLog, failures, startVars, serverVars>>
  /\ UNCHANGED <<gridVars, orchVars, busyVars, paneVars>>

\* startServer past its guards: a ptyId is made, runState[server.id] is set
\* to running: true and invoke("pty_create") is issued; by is the caller
startNow(s, by) ==
  /\ runState' = [runState EXCEPT ![s] = "creating"]
  /\ inflight' = inflight \cup {ServerCall(s)}
  /\ serverPtyId' = [serverPtyId EXCEPT ![s] = @ + 1]
  /\ lastServerEvent' = [lastServerEvent EXCEPT ![s] = by]

\* ServerManager.startServer called from the Start button
startServer(s) ==
  /\ runState[s] = "stopped"
  /\ serverPtyId[s] < MaxServerStarts
  /\ startNow(s, "user-start")
  /\ UNCHANGED <<autostart, closing>>
  /\ UNCHANGED <<ptyCreateQueue, lastSettle, pc, attempt, error, disposed,
                 createLog, enqueueLog, failures, startVars>>
  /\ UNCHANGED <<gridVars, orchVars, busyVars, paneVars>>

\* invoke("pty_create") of startServer returns (runState keeps running: true
\* whether it fulfilled or rejected)
ServerCreateReturns(s) ==
  /\ runState[s] = "creating"
  /\ ServerCall(s) \in inflight
  /\ inflight' = inflight \ {ServerCall(s)}
  /\ runState' = [runState EXCEPT ![s] = "running"]
  /\ UNCHANGED <<ptyCreateQueue, lastSettle, pc, attempt, error, disposed,
                 createLog, enqueueLog, failures, startVars, serverVars>>
  /\ UNCHANGED <<gridVars, orchVars, busyVars, paneVars>>

\* the autostart effect (1275-1281) starts the entry: server.autostart &&
\* !runState[server.id]?.running
autostartStarts(flag, running) == flag /\ ~running

\* ServerManager.stopServer (1265-1273) up to `await invoke("pty_close")`;
\* the Stop button is pressed once the pty_create of the start has returned
stopServer(s) ==
  /\ serverPtyId[s] > 0
  /\ serverPtyId[s] < MaxServerStarts
  /\ ServerCall(s) \notin inflight
  /\ ~closing[s]
  /\ closing' = [closing EXCEPT ![s] = TRUE]
  /\ UNCHANGED <<autostart, serverPtyId, lastServerEvent, runState, inflight>>
  /\ UNCHANGED <<ptyCreateQueue, lastSettle, pc, attempt, error, disposed,
                 createLog, enqueueLog, failures, startVars>>
  /\ UNCHANGED <<gridVars, orchVars, busyVars, paneVars>>

\* invoke("pty_close") of stopServer returns: setRunState(running: false);
\* runState is a dependency of the autostart effect, which runs after the
\* render and calls startServer for an entry with autostart set
ServerCloseReturns(s) ==
  /\ closing[s]
  /\ closing' = [closing EXCEPT ![s] = FALSE]
  /\ IF autostartStarts(autostart[s], FALSE)
     THEN startNow(s, "autostart")
     ELSE /\ runState' = [runState EXCEPT ![s] = "stopped"]
          /\ lastServerEvent' = [lastServerEvent EXCEPT ![s] = "stop"]
          /\ UNCHANGED <<inflight, serverPtyId>>
  /\ UNCHANGED autostart
  /\ UNCHANGED <<ptyCreateQueue, lastSettle, pc, attempt, error, disposed,
                 createLog, enqueueLog, failures, startVars>>
  /\ UNCHANGED <<gridVars, orchVars, busyVars, paneVars>>

\* updateServer(index, {autostart: flag}) from the entry's checkbox; servers
\* is a dependency of the autostart effect
SetAutostart(s, flag) ==
  /\ autostart[s] # flag
  /\ ~closing[s]
  /\ serverPtyId[s] < MaxServerStarts
  /\ autostart' = [autostart EXCEPT ![s] = flag]
  /\ IF autostartStarts(flag, runState[s] # "stopped")
     THEN startNow(s, "autostart")
     ELSE UNCHANGED <<runState, inflight, serverPtyId, lastServerEvent>>
  /\ UNCHANGED closing
  /\ UNCHANGED <<ptyCreateQueue, lastSettle, pc, attempt, error, disposed,
                 createLog, enqueueLog, failures, startVars>>
  /\ UNCHANGED <<gridVars, orchVars, busyVars, paneVars>>

InitCreate == CreateIdle /\ GridIdle /\ OrchIdle /\ BusyIdle /\ PaneIdle

NextCreate ==
  \/ \E p \in CPanes : Mount(p, NoCommand)
  \/ \E p \in CPanes : StartTask(p)
  \/ \E p \in CPanes : \E ok \in BOOLEAN : CreateReturns(p, ok)
  \/ \E p \in CPanes : BackoffElapsed(p)
  \/ \E p \in CPanes : Unmount(p)
  \/ \E s \in Servers : startServer(s)
  \/ \E s \in Servers : ServerCreateReturns(s)

SpecCreate == InitCreate /\ [][NextCreate]_vars

\* loadTabRuntime (1683), handleWorkspaceLaunch (2117), openExistingProject
\* (2137): startupCommandExecuted.clear()
ClearExecuted ==
  /\ startupCommandExecuted # {}
  /\ startupCommandExecuted' = {}
  /\ UNCHANGED <<startupCommand, ptyWrites, serverVars>>
  /\ UNCHANGED <<ptyCreateQueue, lastSettle, pc, attempt, error, disposed,
                 runState, inflight, createLog, enqueueLog, failures>>
  /\ UNCHANGED <<gridVars, orchVars, busyVars, paneVars>>

\* handleClose(id) (2284-2298) of a mounted pane: startupCommandExecuted
\* .delete(id), the pane leaves the list and its effect cleanup runs
ClosePane(p) ==
  /\ pc[p] # "unmounted"
  /\ ~disposed[p]
  /\ startupCommandExecuted' = startupCommandExecuted \ {p}
  /\ disposed' = [disposed EXCEPT ![p] = TRUE]
  /\ error' = [error EXCEPT ![p] = FALSE]
  /\ UNCHANGED <<startupCommand, ptyWrites, serverVars>>
  /\ UNCHANGED <<ptyCreateQueue, lastSettle, pc, attempt, runState, inflight,
                 createLog, enqueueLog, failures>>
  /\ UNCHANGED <<gridVars, orchVars, busyVars, paneVars>>

\* panes are launched with or without an agent command, their creation tasks
\* run, tabs are switched and panes closed meanwhile
NextStartup ==
  \/ \E p \in CPanes : \E command \in AgentCommands \cup {NoCommand} : Mount(p, command)
  \/ \E p \in CPanes : StartTask(p)
  \/ \E p \in CPanes : \E ok \in BOOLEAN : CreateReturns(p, ok)
  \/ \E p \in CPanes : BackoffElapsed(p)
  \/ \E p \in CPanes : ClosePane(p)
  \/ \E p \in CPanes : Unmount(p)
  \/ ClearExecuted

SpecStartup == InitCreate /\ [][NextStartup]_vars

\* the server entries of a project are started, stopped and their autostart
\* flag is set and cleared
NextServer ==
  \/ \E s \in Servers : startServer(s)
  \/ \E s \in Servers : ServerCreateReturns(s)
  \/ \E s \in Servers : stopServer(s)
  \/ \E s \in Servers : ServerCloseReturns(s)
  \/ \E s \in Servers : \E flag \in BOOLEAN : SetAutostart(s, flag)

SpecServer == InitCreate /\ [][NextServer]_vars

\* ------------------------------------------------------------------------
\* MainApp handlers; every handler is followed by the effects it triggers
\* (snapshot effect 1649-1680, activeId repair 1802-1806, saveSession
\* effect 1808-1827)
\* ------------------------------------------------------------------------
Live ==
  [projectPath |-> projectPath, workspaceName |-> workspaceName,
   isProjectReady |-> isProjectReady, panes |-> panes, activeId |-> activeId,
   lastSplit |-> lastSplit, fixedGridLayoutId |-> fixedGridLayoutId]

liveSnapshot(live) ==
  IF live.isProjectReady
  THEN buildSnapshot(live.projectPath, live.workspaceName, live.panes,
                     live.activeId, live.lastSplit, live.fixedGridLayoutId)
  ELSE NullSnapshot

\* mutant of saveSessionEffect: nothing is written
saveSessionEffect_never(live, stored) == stored

\* the saveSession effect (1808-1827): what the last-session key holds after it
saveSessionEffect(live, stored) ==
  IF ~live.isProjectReady \/ live.projectPath = "" \/ Len(live.panes) = 0
  THEN stored
  ELSE [projectPath |-> live.projectPath,
        workspaceName |-> live.workspaceName,
        panes |-> [i \in 1..Len(live.panes) |->
                     [id |-> live.panes[i].id, name |-> live.panes[i].name]],
        activeId |-> live.activeId,
        lastSplit |-> live.lastSplit,
        gridLayoutId |-> IF live.fixedGridLayoutId = Null THEN Undefined
                         ELSE live.fixedGridLayoutId]

\* snapshot.panes.map(...) of the render (3551-3554): the pane ids of a tab
SnapshotPaneIds(snapshot) ==
  IF snapshot = NullSnapshot THEN {}
  ELSE {snapshot.panes[i].id : i \in 1..Len(snapshot.panes)}

\* mutant of renderedPanes: only the active tab's panes are rendered
renderedPanes_activeOnly(ts, tabId, live) ==
  IF ~live.isProjectReady THEN {}
  ELSE SnapshotPaneIds(buildSnapshot(live.projectPath, live.workspaceName,
                          live.panes, live.activeId, live.lastSplit,
                          live.fixedGridLayoutId))

\* the TerminalPane elements of a render: none on the start screen (3325),
\* else one per pane of every tab that has a snapshot, the active tab's
\* snapshot being built from the live state (3537-3591)
renderedPanes(ts, tabId, live) ==
  IF ~live.isProjectReady THEN {}
  ELSE UNION {SnapshotPaneIds(IF ts[i].id = tabId
                              THEN buildSnapshot(live.projectPath, live.workspaceName,
                                      live.panes, live.activeId, live.lastSplit,
                                      live.fixedGridLayoutId)
                              ELSE ts[i].snapshot) : i \in 1..Len(ts)}

\* pty_close invocations issued so far for pane id
closeCount(log, id) == IF id \in DOMAIN log THEN log[id] ELSE 0

\* the effect cleanup of every pane in ids runs: invoke("pty_close", {id}) (1113)
cleanupPanes(log, ids) ==
  [id \in (DOMAIN log) \cup ids |->
     closeCount(log, id) + (IF id \in ids THEN 1 ELSE 0)]

\* the state after the handler's setState calls, the render that follows
\* (panes no longer rendered unmount, their cleanup runs), then the effects:
\* activeId is repaired and the active tab's snapshot rebuilt from the live
\* state
Commit(nextTabs, nextActiveTabId, live) ==
  LET repaired == [live EXCEPT !.activeId = RepairActiveId(live.panes, live.activeId)]
      rendered == renderedPanes(nextTabs, nextActiveTabId, live)
  IN  /\ activeTabId' = nextActiveTabId
      /\ mountedPanes' = rendered
      /\ ptyCloses' = cleanupPanes(ptyCloses, mountedPanes \ rendered)
      /\ projectPath' = repaired.projectPath
      /\ workspaceName' = repaired.workspaceName
      /\ isProjectReady' = repaired.isProjectReady
      /\ panes' = repaired.panes
      /\ activeId' = repaired.activeId
      /\ lastSplit' = repaired.lastSplit
      /\ fixedGridLayoutId' = repaired.fixedGridLayoutId
      /\ storedSession' = saveSessionEffect(repaired, storedSession)
      /\ tabs' = [i \in 1..Len(nextTabs) |->
                    IF nextTabs[i].id = nextActiveTabId
                    THEN [nextTabs[i] EXCEPT !.snapshot = liveSnapshot(repaired)]
                    ELSE nextTabs[i]]

NoChange ==
  UNCHANGED <<tabs, activeTabId, panes, activeId, lastSplit, fixedGridLayoutId,
              projectPath, workspaceName, isProjectReady, nextPaneId, nextTabId,
              storedSession, mountedPanes, ptyCloses>>

\* the handler that runs and the pane count it finds
Op(name) == <<name, Len(panes)>>

\* handleClose (2284-2298)
handleClose(id) ==
  /\ Commit(tabs, activeTabId, [Live EXCEPT !.panes = closePanes(panes, id)])
  /\ UNCHANGED <<nextPaneId, nextTabId>>

\* the split branch of the keydown handler and of the palette actions
split(orientation) ==
  /\ Commit(tabs, activeTabId,
            [Live EXCEPT !.panes = splitPanes(panes, activeId, nextPaneId),
                         !.lastSplit = orientation])
  /\ nextPaneId' = nextPaneId + 1
  /\ UNCHANGED nextTabId

\* DEFAULT_SHORTCUTS (142-146)
splitHorizontalKey == "d"
splitVerticalKey == "b"

CtrlKeys == {"d", "b", "w", "v"}

\* the keydown handler with Ctrl held (2215-2269)
handleKey(key) ==
  IF key = "v"
  THEN NoChange    \* paste into the active pane
  ELSE IF key # splitHorizontalKey /\ key # splitVerticalKey /\ key # "w"
  THEN NoChange
  ELSE IF ~isProjectReady
  THEN NoChange
  ELSE IF Len(panes) >= MAX_SPLITS * MAX_SPLITS
  THEN NoChange
  ELSE IF key = "w"
  THEN handleClose(activeId)
  ELSE split(IF key = splitHorizontalKey THEN "horizontal" ELSE "vertical")

\* Ctrl+key is pressed; idLimit bounds the ids createRuntimeId hands out
KeyDown(key, idLimit) ==
  /\ key \in {splitHorizontalKey, splitVerticalKey} => nextPaneId <= idLimit
  /\ lastOp' = Op(key)
  /\ handleKey(key)
  /\ UNCHANGED <<recentProjects, storedRecents>>
  /\ UNCHANGED <<gridVars, createVars, busyVars, paneVars>>

\* palette actions split-horizontal / split-vertical (2965-3004)
PaletteSplit(orientation, idLimit) ==
  /\ isProjectReady
  /\ nextPaneId <= idLimit
  /\ lastOp' = Op(IF orientation = "horizontal" THEN "split-horizontal"
                   ELSE "split-vertical")
  /\ split(orientation)
  /\ UNCHANGED <<recentProjects, storedRecents>>
  /\ UNCHANGED <<gridVars, createVars, busyVars, paneVars>>

\* palette action close-pane (3005-3013)
PaletteClose ==
  /\ isProjectReady
  /\ lastOp' = Op("palette-close")
  /\ handleClose(activeId)
  /\ UNCHANGED <<recentProjects, storedRecents>>
  /\ UNCHANGED <<gridVars, createVars, busyVars, paneVars>>

\* the close button of a pane (1151-1157, 3583-3584), enabled by canClose
CloseButton(id) ==
  /\ isProjectReady
  /\ Len(panes) > 1
  /\ id \in PaneIds(panes)
  /\ lastOp' = Op("close-button")
  /\ handleClose(id)
  /\ UNCHANGED <<recentProjects, storedRecents>>
  /\ UNCHANGED <<gridVars, createVars, busyVars, paneVars>>

\* a click on a pane of the active tab: onSelect -> setActiveId (3582)
SelectPane(id) ==
  /\ isProjectReady
  /\ id \in PaneIds(panes)
  /\ lastOp' = Op("select-pane")
  /\ Commit(tabs, activeTabId, [Live EXCEPT !.activeId = id])
  /\ UNCHANGED <<nextPaneId, nextTabId>>
  /\ UNCHANGED <<recentProjects, storedRecents>>
  /\ UNCHANGED <<gridVars, createVars, busyVars, paneVars>>

\* handleSelectTab (1737-1766)
handleSelectTab(tabId) ==
  IF tabId = activeTabId \/ tabIndex(tabs, tabId) = 0
  THEN NoChange
  ELSE LET target == tabs[tabIndex(tabs, tabId)]
           frozen == [i \in 1..Len(tabs) |->
                        IF tabs[i].id = activeTabId
                        THEN [tabs[i] EXCEPT !.snapshot = liveSnapshot(Live)]
                        ELSE tabs[i]]
       IN  /\ Commit(frozen, tabId, loadTabRuntime(target, nextPaneId))
           /\ nextPaneId' = IF target.snapshot = NullSnapshot
                            THEN nextPaneId + 1 ELSE nextPaneId
           /\ UNCHANGED nextTabId

SelectTab(tabId) ==
  /\ isProjectReady
  /\ tabId \in TabIds
  /\ lastOp' = Op("select-tab")
  /\ handleSelectTab(tabId)
  /\ UNCHANGED <<recentProjects, storedRecents>>
  /\ UNCHANGED <<gridVars, createVars, busyVars, paneVars>>

\* mutant of fallbackIndex: the first remaining tab is always the fallback
fallbackIndex_first(index) == 1

\* handleDeleteTab: Math.max(0, index - 1), as a 1-based index of filtered
fallbackIndex(index) == IF index - 1 >= 1 THEN index - 1 ELSE 1

\* handleDeleteTab (1783-1800)
handleDeleteTab(tabId) ==
  IF Len(tabs) <= 1 \/ tabIndex(tabs, tabId) = 0
  THEN NoChange
  ELSE LET index == tabIndex(tabs, tabId)
           filtered == SelectSeq(tabs, LAMBDA tab : tab.id # tabId)
           fallback == filtered[fallbackIndex(index)]
       IN  IF tabId # activeTabId
           THEN /\ Commit(filtered, activeTabId, Live)
                /\ UNCHANGED <<nextPaneId, nextTabId>>
           ELSE /\ Commit(filtered, fallback.id,
                          loadTabRuntime(fallback, nextPaneId))
                /\ nextPaneId' = IF fallback.snapshot = NullSnapshot
                                 THEN nextPaneId + 1 ELSE nextPaneId
                /\ UNCHANGED nextTabId

DeleteTab(tabId) ==
  /\ isProjectReady
  /\ tabId \in TabIds
  /\ lastOp' = Op("delete-tab")
  /\ handleDeleteTab(tabId)
  /\ UNCHANGED <<recentProjects, storedRecents>>
  /\ UNCHANGED <<gridVars, createVars, busyVars, paneVars>>

SetupModes == {"active-tab", "new-tab"}

\* handleWorkspaceLaunch (1980-2133) with no agent enabled in the form
handleWorkspaceLaunch(mode, path, gridLayoutId, formName) ==
  LET layout == getGridLayout(gridLayoutId)
      capacity == getGridCapacity(layout)
      resolvedWorkspaceName ==
        IF Trim(formName) # "" THEN Trim(formName)
        ELSE IF getFolderName(path) # "" THEN getFolderName(path)
        ELSE "Workspace"
      nextPanes == [i \in 1..capacity |->
                      [id |-> createRuntimeId(nextPaneId + i - 1),
                       name |-> WorkspaceTerminalName(resolvedWorkspaceName, i)]]
      nextSplit == IF layout.rows >= layout.cols THEN "horizontal" ELSE "vertical"
      nextSnapshot == buildSnapshot(path, resolvedWorkspaceName, nextPanes,
                                    nextPanes[1].id, nextSplit, layout.id)
      newTabId == createRuntimeId(nextTabId)
      withCurrent == [i \in 1..Len(tabs) |->
                        IF tabs[i].id = activeTabId
                        THEN [tabs[i] EXCEPT
                                !.title = IF Trim(workspaceName) # ""
                                          THEN Trim(workspaceName) ELSE @,
                                !.snapshot = liveSnapshot(Live)]
                        ELSE tabs[i]]
      retitled == [i \in 1..Len(tabs) |->
                     IF tabs[i].id = activeTabId
                     THEN [tabs[i] EXCEPT !.title = resolvedWorkspaceName,
                                          !.snapshot = nextSnapshot]
                     ELSE tabs[i]]
      live == [projectPath |-> path, workspaceName |-> resolvedWorkspaceName,
               isProjectReady |-> TRUE, panes |-> nextPanes,
               activeId |-> nextPanes[1].id, lastSplit |-> nextSplit,
               fixedGridLayoutId |-> layout.id]
  IN  /\ IF mode = "new-tab"
         THEN /\ Commit(Append(withCurrent,
                               [id |-> newTabId, title |-> resolvedWorkspaceName,
                                snapshot |-> nextSnapshot]),
                        newTabId, live)
              /\ nextTabId' = nextTabId + 1
         ELSE /\ Commit(retitled, activeTabId, live)
              /\ UNCHANGED nextTabId
      /\ nextPaneId' = nextPaneId + capacity
      /\ recentProjects' = updateRecentProjects(recentProjects, path)
      /\ storedRecents' = updateRecentProjects(recentProjects, path)

\* the workspace form is submitted; the "+" button that opens it in new-tab
\* mode is on the tab bar of a ready project
WorkspaceLaunch(mode, path, gridLayoutId, formName, idLimit) ==
  /\ mode = "new-tab" => (isProjectReady /\ nextTabId <= MaxTabIds)
  /\ nextPaneId + getGridCapacity(getGridLayout(gridLayoutId)) - 1 <= idLimit
  /\ lastOp' = Op("launch")
  /\ handleWorkspaceLaunch(mode, path, gridLayoutId, formName)
  /\ UNCHANGED <<gridVars, createVars, busyVars, paneVars>>

\* openExistingProject (2135-2149), offered on the start screen
openExistingProject(path) ==
  LET pane == createPane(nextPaneId, 1)
  IN  /\ Commit(tabs, activeTabId,
                [Live EXCEPT !.projectPath = path,
                             !.workspaceName = IF getFolderName(path) # ""
                                               THEN getFolderName(path)
                                               ELSE "Workspace",
                             !.isProjectReady = TRUE,
                             !.fixedGridLayoutId = Null,
                             !.panes = <<pane>>,
                             !.activeId = pane.id])
      /\ nextPaneId' = nextPaneId + 1
      /\ UNCHANGED nextTabId
      /\ recentProjects' = updateRecentProjects(recentProjects, path)
      /\ storedRecents' = updateRecentProjects(recentProjects, path)

OpenRecent(path, idLimit) ==
  /\ ~isProjectReady
  /\ nextPaneId <= idLimit
  /\ \E i \in 1..Len(recentProjects) : recentProjects[i] = path
  /\ lastOp' = Op("open-recent")
  /\ openExistingProject(path)
  /\ UNCHANGED <<gridVars, createVars, busyVars, paneVars>>

\* the recent projects read from storage when the app starts
StoredRecents == {<<>>, <<"/a">>}

InitOrch ==
  /\ OrchStart
  /\ recentProjects \in StoredRecents
  /\ storedRecents = recentProjects
  /\ GridIdle
  /\ CreateIdle
  /\ BusyIdle
  /\ PaneIdle

\* layouts picked in the workspace form
OrchLayouts == {"grid-1", "grid-1x2", "grid-2x2"}

NextOrch ==
  \/ \E key \in CtrlKeys : KeyDown(key, MaxOrchPaneIds)
  \/ \E o \in Orientations : PaletteSplit(o, MaxOrchPaneIds)
  \/ PaletteClose
  \/ \E id \in PaneIds(panes) : CloseButton(id)
  \/ \E id \in PaneIds(panes) : SelectPane(id)
  \/ \E tabId \in TabIds : SelectTab(tabId)
  \/ \E tabId \in TabIds : DeleteTab(tabId)
  \/ \E mode \in SetupModes, path \in Paths, id \in OrchLayouts, name \in FormNames :
       WorkspaceLaunch(mode, path, id, name, MaxOrchPaneIds)
  \/ \E path \in Paths : OpenRecent(path, MaxOrchPaneIds)

SpecOrch == InitOrch /\ [][NextOrch]_vars

\* one workspace, launched once from the start screen and grown by splits up
\* to and past the ceiling of 36 panes
CapLayouts == {"grid-1", "grid-4x4"}

NextCap ==
  \/ \E key \in CtrlKeys :
       /\ key = "w" => Len(panes) >= CapCloseFrom
       /\ key \in {splitHorizontalKey, splitVerticalKey} => Len(panes) < MaxPanes
       /\ KeyDown(key, MaxPaneIds)
  \/ \E o \in Orientations :
       Len(panes) < MaxPanes /\ PaletteSplit(o, MaxPaneIds)
  \/ Len(panes) >= CapCloseFrom /\ PaletteClose
  \/ \E id \in CapLayouts :
       ~isProjectReady /\ WorkspaceLaunch("active-tab", "/a", id, "", MaxPaneIds)

SpecCap == InitOrch /\ [][NextCap]_vars

\* ------------------------------------------------------------------------
\* SpecTabs: up to three tabs of one or two panes are opened, switched
\* between and deleted
\* ------------------------------------------------------------------------
TabLayouts == {"grid-1", "grid-1x2"}

\* the workspace form is submitted (handleWorkspaceLaunch), for the active
\* tab or, from the "+" button of a ready project, for a new tab
LaunchTab(mode, gridLayoutId) ==
  /\ mode = "new-tab" => (isProjectReady /\ nextTabId <= MaxOpenTabIds)
  /\ nextPaneId + getGridCapacity(getGridLayout(gridLayoutId)) - 1 <= MaxTabPaneIds
  /\ lastOp' = Op("launch")
  /\ handleWorkspaceLaunch(mode, "/a", gridLayoutId, "")
  /\ UNCHANGED <<gridVars, createVars, busyVars, paneVars>>

NextTabs ==
  \/ \E mode \in SetupModes, id \in TabLayouts : LaunchTab(mode, id)
  \/ \E id \in PaneIds(panes) : SelectPane(id)
  \/ \E tabId \in TabIds : SelectTab(tabId)
  \/ \E tabId \in TabIds : DeleteTab(tabId)

SpecTabs == InitOrch /\ [][NextTabs]_vars

\* ------------------------------------------------------------------------
\* SpecRound: a live tab state is drawn, its snapshot is built and a tab
\* holding that snapshot is rehydrated
\* ------------------------------------------------------------------------
RoundPaneLists ==
  {ps \in UNION {[1..n -> [id : 1..MaxRoundPanes,
                           name : {TerminalName(1), WorkspaceTerminalName("a", 2)}]]
                   : n \in 1..MaxRoundPanes} :
     \A i, j \in 1..Len(ps) : ps[i].id = ps[j].id => i = j}

InitRound ==
  /\ tabs = <<[id |-> 1, title |-> "Tab 1", snapshot |-> NullSnapshot]>>
  /\ activeTabId = 1
  /\ panes \in RoundPaneLists
  /\ activeId \in 1..(MaxRoundPanes + 1)
  /\ lastSplit \in Orientations
  /\ fixedGridLayoutId \in {Null, "grid-2x2"}
  /\ projectPath \in Paths
  /\ workspaceName = getFolderName(projectPath)
  /\ isProjectReady = TRUE
  /\ recentProjects = <<projectPath>>
  /\ storedRecents = recentProjects
  /\ storedSession = NullSnapshot
  /\ nextPaneId = MaxRoundPanes + 2
  /\ nextTabId = 2
  /\ lastOp = <<"start", Len(panes)>>
  /\ mountedPanes = PaneIds(panes)
  /\ ptyCloses = <<>>
  /\ GridIdle
  /\ CreateIdle
  /\ BusyIdle
  /\ PaneIdle

\* buildSnapshot of the live state, then loadTabRuntime of a tab holding it
Rehydrate ==
  LET snapshot == buildSnapshot(projectPath, workspaceName, panes, activeId,
                                lastSplit, fixedGridLayoutId)
      target == [tabs[1] EXCEPT !.snapshot = snapshot]
      loaded == loadTabRuntime(target, nextPaneId)
  IN  /\ lastOp[1] = "start"
      /\ lastOp' = Op("rehydrate")
      /\ tabs' = <<target>>
      /\ projectPath' = loaded.projectPath
      /\ workspaceName' = loaded.workspaceName
      /\ isProjectReady' = loaded.isProjectReady
      /\ panes' = loaded.panes
      /\ activeId' = loaded.activeId
      /\ lastSplit' = loaded.lastSplit
      /\ fixedGridLayoutId' = loaded.fixedGridLayoutId
      /\ nextPaneId' = IF snapshot = NullSnapshot THEN nextPaneId + 1
                       ELSE nextPaneId
      /\ UNCHANGED <<activeTabId, nextTabId, recentProjects, storedRecents,
                     storedSession, mountedPanes, ptyCloses>>
      /\ UNCHANGED <<gridVars, createVars, busyVars, paneVars>>

NextRound == Rehydrate

SpecRound == InitRound /\ [][NextRound]_vars

\* C16: rehydrating the snapshot built from a live tab state with a project
\* path and at least one pane gives the same pane ids in the same order, the
\* same pane names, the same split orientation and pinned layout, and the
\* same active id if that id is among the panes, else the id of the first pane
C16_SnapshotRoundTrip ==
  [][(/\ lastOp'[1] = "rehydrate"
      /\ projectPath # ""
      /\ Len(panes) >= 1) =>
       /\ Len(panes') = Len(panes)
       /\ \A i \in 1..Len(panes) :
            /\ panes'[i].id = panes[i].id
            /\ panes'[i].name = panes[i].name
       /\ lastSplit' = lastSplit
       /\ fixedGridLayoutId' = fixedGridLayoutId
       /\ activeId' = IF activeId \in PaneIds(panes) THEN activeId
                      ELSE panes[1].id]_vars

\* a state with a pinned 2x2 layout and a recorded active id that is not
\* among its two panes was rehydrated: the first pane is active
C16_Witness ==
  /\ lastOp[1] = "rehydrate"
  /\ Len(panes) = 2
  /\ tabs[1].snapshot # NullSnapshot
  /\ tabs[1].snapshot.activeId \notin PaneIds(panes)
  /\ activeId = panes[1].id
  /\ fixedGridLayoutId = "grid-2x2"

\* ------------------------------------------------------------------------
\* SpecRecents: projects are opened one after the other, from a start with an
\* empty, a nearly full or a full list of recent projects in storage
\* ------------------------------------------------------------------------
RecentPaths == {"/a", "/b", "/c", "/d", "/e", "/f", "/g"}

FullRecents ==
  {<<>>, <<"/a", "/b", "/c", "/d", "/e">>, <<"/a", "/b", "/c", "/d", "/e", "/f">>}

InitRecents ==
  /\ OrchStart
  /\ recentProjects \in FullRecents
  /\ storedRecents = recentProjects
  /\ GridIdle
  /\ CreateIdle
  /\ BusyIdle
  /\ PaneIdle

NextRecents ==
  \/ \E mode \in SetupModes, path \in RecentPaths :
       WorkspaceLaunch(mode, path, "grid-1", "", MaxRecentsPaneIds)
  \/ \E path \in RecentPaths : OpenRecent(path, MaxRecentsPaneIds)

SpecRecents == InitRecents /\ [][NextRecents]_vars

\* C19: the recent-projects list, in state and in storage, has at most 6
\* entries and no path twice; an open (workspace launch or open recent) puts
\* the opened path first and keeps the other paths in their previous order
C19_RecentsBounded ==
  /\ [](/\ Len(recentProjects) <= 6
         /\ \A i, j \in 1..Len(recentProjects) :
              recentProjects[i] = recentProjects[j] => i = j
         /\ storedRecents = recentProjects)
  /\ [][lastOp'[1] \in {"launch", "open-recent"} =>
          LET rest == SelectSeq(recentProjects,
                                LAMBDA item : item # projectPath')
          IN  /\ recentProjects' # <<>>
              /\ recentProjects'[1] = projectPath'
              /\ Len(recentProjects') =
                   (IF Len(rest) + 1 <= 6 THEN Len(rest) + 1 ELSE 6)
              /\ Tail(recentProjects')
                   = SubSeq(rest, 1, Len(recentProjects') - 1)]_vars

\* a seventh path was opened with six in the list: it is first and the oldest
\* path is gone
C19_Witness ==
  /\ lastOp[1] = "launch"
  /\ projectPath = "/g"
  /\ recentProjects = <<"/g", "/a", "/b", "/c", "/d", "/e">>
  /\ storedRecents = recentProjects

\* ------------------------------------------------------------------------
\* The busy classifier of one TerminalPane (App.tsx 466-477, 851-919,
\* 1003-1016, 1047-1059, 1085-1114)
\* ------------------------------------------------------------------------
AGENT_STREAM_IDLE_MS == 1200
AGENT_BUSY_GRACE_MS == 1900
\* mutant of AGENT_RECHECK_MS: the re-check waits for the idle window only
AGENT_RECHECK_MS_idleOnly == AGENT_STREAM_IDLE_MS + 120

AGENT_RECHECK_MS == MathMax(AGENT_STREAM_IDLE_MS, AGENT_BUSY_GRACE_MS) + 120

\* an output chunk: what hasBusySignalInChunk looks at, and whether writing
\* it moves the marker out of the visible lines
Chunk(marker, busyWord, blank, cr, nl, scrolls) ==
  [marker |-> marker, busyWord |-> busyWord, blank |-> blank,
   cr |-> cr, nl |-> nl, scrolls |-> scrolls]

Chunks ==
  {Chunk(TRUE, FALSE, FALSE, FALSE, FALSE, FALSE),   \* "... esc to interrupt"
   Chunk(FALSE, TRUE, FALSE, TRUE, TRUE, FALSE),     \* "Thinking\r\n"
   Chunk(FALSE, FALSE, FALSE, TRUE, TRUE, FALSE),    \* "done\r\n"
   Chunk(FALSE, FALSE, FALSE, TRUE, TRUE, TRUE),     \* lines that scroll the marker away
   Chunk(FALSE, FALSE, TRUE, TRUE, FALSE, FALSE),    \* "\r"
   Chunk(FALSE, FALSE, FALSE, TRUE, FALSE, FALSE),   \* "42%\r"
   Chunk(FALSE, FALSE, FALSE, FALSE, FALSE, FALSE),  \* "abc"
   Chunk(FALSE, FALSE, TRUE, FALSE, TRUE, FALSE)}    \* "\n", or colour codes only

\* mutant of hasBusySignalInChunk: a carriage return without a line feed is
\* not taken for a busy signal
hasBusySignalInChunk_noCr(chunk) ==
  IF chunk.blank /\ ~chunk.cr THEN FALSE
  ELSE IF chunk.marker THEN TRUE
  ELSE chunk.busyWord

\* hasBusySignalInChunk (471-477)
hasBusySignalInChunk(chunk) ==
  IF chunk.blank /\ ~chunk.cr THEN FALSE
  ELSE IF chunk.marker THEN TRUE
  ELSE IF chunk.busyWord THEN TRUE
  ELSE chunk.cr /\ ~chunk.nl

\* hasInterruptSignal (869-887)
hasInterruptSignal == IF ~termAlive THEN FALSE ELSE markerVisible

\* mutant of workingAfterSync: the grace window of a busy signal is ignored
workingAfterSync_noGrace(hasInterruptMarker, hasRecentBusySignal, hasRecentOutput) ==
  hasInterruptMarker \/ hasRecentOutput

\* mutant of workingAfterSync: the visible marker is not looked at
workingAfterSync_noMarker(hasInterruptMarker, hasRecentBusySignal, hasRecentOutput) ==
  hasRecentBusySignal \/ hasRecentOutput

\* the argument of setWorkingState in syncWorkingFromTerminal (900)
workingAfterSync(hasInterruptMarker, hasRecentBusySignal, hasRecentOutput) ==
  hasInterruptMarker \/ hasRecentBusySignal \/ hasRecentOutput

\* mutant of syncWorkingFromTerminal: awaitingResponse is never cleared
syncWorkingFromTerminal_keepsAwaiting ==
  /\ UNCHANGED awaitingResponseRef
  /\ isWorkingRef' = workingAfterSync(hasInterruptSignal,
                         now - lastBusySignalAtRef < AGENT_BUSY_GRACE_MS,
                         awaitingResponseRef /\ now - lastOutputAtRef < AGENT_STREAM_IDLE_MS)

\* syncWorkingFromTerminal (889-901)
syncWorkingFromTerminal ==
  LET hasInterruptMarker == hasInterruptSignal
      hasRecentBusySignal == now - lastBusySignalAtRef < AGENT_BUSY_GRACE_MS
      hasRecentOutput == /\ awaitingResponseRef
                         /\ now - lastOutputAtRef < AGENT_STREAM_IDLE_MS
  IN  /\ awaitingResponseRef' =
           IF ~hasInterruptMarker /\ awaitingResponseRef /\ ~hasRecentOutput
           THEN FALSE ELSE awaitingResponseRef
      /\ isWorkingRef' = workingAfterSync(hasInterruptMarker,
                                          hasRecentBusySignal, hasRecentOutput)

\* user input reaches term.onData (1003-1016): the data typed or pasted, by
\* what the handler looks for in it
InputKinds == {"interrupt", "enter", "interrupt-enter", "key"}
hasEtx(kind) == kind \in {"interrupt", "interrupt-enter"}   \* data.includes("\u0003")
hasCr(kind) == kind \in {"enter", "interrupt-enter"}        \* data.includes("\r")

\* mutant of OnData: the carriage return is looked for first
OnData_crFirst(kind) ==
  /\ termAlive
  /\ lastEvent' = kind
  /\ IF hasCr(kind)
     THEN /\ awaitingResponseRef' = TRUE
          /\ lastOutputAtRef' = now
          /\ UNCHANGED lastBusySignalAtRef
     ELSE IF hasEtx(kind)
     THEN /\ awaitingResponseRef' = FALSE
          /\ lastBusySignalAtRef' = 0
          /\ UNCHANGED lastOutputAtRef
     ELSE UNCHANGED <<awaitingResponseRef, lastOutputAtRef, lastBusySignalAtRef>>
  /\ signalSyncRafRef' = TRUE
  /\ signalSyncTimeoutRef' = now + AGENT_RECHECK_MS
  /\ UNCHANGED <<now, termAlive, markerVisible, isWorkingRef, lastChunk>>
  /\ UNCHANGED <<gridVars, createVars, orchVars, paneVars>>

OnData(kind) ==
  /\ termAlive
  /\ lastEvent' = kind
  /\ IF hasEtx(kind)
     THEN /\ awaitingResponseRef' = FALSE
          /\ lastBusySignalAtRef' = 0
          /\ UNCHANGED lastOutputAtRef
     ELSE IF hasCr(kind)
     THEN /\ awaitingResponseRef' = TRUE
          /\ lastOutputAtRef' = now
          /\ UNCHANGED lastBusySignalAtRef
     ELSE UNCHANGED <<awaitingResponseRef, lastOutputAtRef, lastBusySignalAtRef>>
  /\ signalSyncRafRef' = TRUE
  /\ signalSyncTimeoutRef' = now + AGENT_RECHECK_MS
  /\ UNCHANGED <<now, termAlive, markerVisible, isWorkingRef, lastChunk>>
  /\ UNCHANGED <<gridVars, createVars, orchVars, paneVars>>

\* a pty:data event for this pane (1047-1059)
OnPtyData(chunk) ==
  /\ termAlive
  /\ lastEvent' = (IF chunk.marker THEN "marker" ELSE "output")
  /\ lastChunk' = chunk
  /\ markerVisible' = IF chunk.marker THEN TRUE
                      ELSE IF chunk.scrolls THEN FALSE
                      ELSE markerVisible
  /\ lastOutputAtRef' = now
  /\ lastBusySignalAtRef' = IF hasBusySignalInChunk(chunk) THEN now
                            ELSE lastBusySignalAtRef
  /\ signalSyncTimeoutRef' = now + AGENT_RECHECK_MS
  /\ signalSyncRafRef' = TRUE
  /\ UNCHANGED <<now, termAlive, awaitingResponseRef, isWorkingRef>>
  /\ UNCHANGED <<gridVars, createVars, orchVars, paneVars>>

\* the animation frame callback of scheduleSignalSync (905-908)
RafFires ==
  /\ signalSyncRafRef
  /\ lastEvent' = "sync"
  /\ signalSyncRafRef' = FALSE
  /\ syncWorkingFromTerminal
  /\ UNCHANGED <<now, termAlive, markerVisible, lastOutputAtRef,
                 lastBusySignalAtRef, signalSyncTimeoutRef, lastChunk>>
  /\ UNCHANGED <<gridVars, createVars, orchVars, paneVars>>

\* the timer callback of scheduleDelayedSignalSync (915-918)
TimeoutFires ==
  /\ signalSyncTimeoutRef # NoTimer
  /\ now >= signalSyncTimeoutRef
  /\ lastEvent' = "sync"
  /\ signalSyncTimeoutRef' = NoTimer
  /\ syncWorkingFromTerminal
  /\ UNCHANGED <<now, termAlive, markerVisible, lastOutputAtRef,
                 lastBusySignalAtRef, signalSyncRafRef, lastChunk>>
  /\ UNCHANGED <<gridVars, createVars, orchVars, paneVars>>

\* the animation frame callback when reading the visible lines throws in
\* hasInterruptSignal (873-886): nothing catches it, syncWorkingFromTerminal
\* is left at line 891 and the error leaves the callback
RafFiresReadThrows ==
  /\ signalSyncRafRef
  /\ termAlive
  /\ lastEvent' = "throw"
  /\ signalSyncRafRef' = FALSE
  /\ UNCHANGED <<now, termAlive, markerVisible, lastOutputAtRef,
                 lastBusySignalAtRef, awaitingResponseRef, isWorkingRef,
                 signalSyncTimeoutRef, lastChunk>>
  /\ UNCHANGED <<gridVars, createVars, orchVars, paneVars>>

\* the same in the timer callback
TimeoutFiresReadThrows ==
  /\ signalSyncTimeoutRef # NoTimer
  /\ now >= signalSyncTimeoutRef
  /\ termAlive
  /\ lastEvent' = "throw"
  /\ signalSyncTimeoutRef' = NoTimer
  /\ UNCHANGED <<now, termAlive, markerVisible, lastOutputAtRef,
                 lastBusySignalAtRef, awaitingResponseRef, isWorkingRef,
                 signalSyncRafRef, lastChunk>>
  /\ UNCHANGED <<gridVars, createVars, orchVars, paneVars>>

\* time passes
Tick ==
  /\ now + TickMs <= StartTime + MaxElapsed
  /\ now' = now + TickMs
  /\ UNCHANGED <<termAlive, markerVisible, lastOutputAtRef, lastBusySignalAtRef,
                 awaitingResponseRef, isWorkingRef, signalSyncRafRef,
                 signalSyncTimeoutRef, lastEvent, lastChunk>>
  /\ UNCHANGED <<gridVars, createVars, orchVars, paneVars>>

\* the effect cleanup of the pane (1085-1114)
Teardown ==
  /\ termAlive
  /\ lastEvent' = "teardown"
  /\ signalSyncRafRef' = FALSE
  /\ signalSyncTimeoutRef' = NoTimer
  /\ termAlive' = FALSE
  /\ awaitingResponseRef' = FALSE
  /\ lastOutputAtRef' = 0
  /\ lastBusySignalAtRef' = 0
  /\ isWorkingRef' = FALSE
  /\ UNCHANGED <<now, markerVisible, lastChunk>>
  /\ UNCHANGED <<gridVars, createVars, orchVars, paneVars>>

InitBusy == BusyIdle /\ GridIdle /\ CreateIdle /\ OrchIdle /\ PaneIdle

NextBusy ==
  \/ \E kind \in InputKinds : OnData(kind)
  \/ \E chunk \in Chunks : OnPtyData(chunk)
  \/ RafFires
  \/ TimeoutFires
  \/ RafFiresReadThrows
  \/ TimeoutFiresReadThrows
  \/ Tick
  \/ Teardown

SpecBusy == InitBusy /\ [][NextBusy]_vars

\* C20: the re-evaluation that follows an interrupt keystroke (input with
\* Ctrl-C) sets the working state to false, whatever output, busy signal,
\* awaitingResponse or visible marker there was
C20_InterruptForcesIdle ==
  [][(hasEtx(lastEvent) /\ lastEvent' = "sync") => ~isWorkingRef']_vars

\* this step is a re-evaluation that ran to its end
Reevaluated == lastEvent' = "sync" /\ now' = now

\* the windows a re-evaluation looks at
GraceOpen == now - lastBusySignalAtRef < AGENT_BUSY_GRACE_MS
IdleOpen == awaitingResponseRef /\ now - lastOutputAtRef < AGENT_STREAM_IDLE_MS

\* C21: the re-evaluation after a chunk with "esc to interrupt" sets working
\* to true; every re-evaluation with the marker in the visible lines sets it
\* to true; while the pane lives, working goes from true to false only at a
\* re-evaluation with no visible marker, the busy-grace window closed and
\* the awaiting-response idle window closed
C21_MarkerKeepsWorking ==
  /\ [][(lastEvent = "marker" /\ Reevaluated) => isWorkingRef']_vars
  /\ [][(Reevaluated /\ termAlive /\ markerVisible) => isWorkingRef']_vars
  /\ [][(isWorkingRef /\ ~isWorkingRef' /\ termAlive') =>
          /\ Reevaluated
          /\ ~markerVisible
          /\ ~GraceOpen
          /\ ~IdleOpen]_vars

\* a re-evaluation long after the last busy signal, with nothing awaited:
\* working is true because the marker is still visible
C21_Witness ==
  /\ lastEvent = "sync"
  /\ markerVisible
  /\ isWorkingRef
  /\ ~GraceOpen
  /\ ~awaitingResponseRef

\* C22: a re-evaluation sets working to markerVisible or
\* now - lastBusySignalAt < 1900 or (awaitingResponse and
\* now - lastOutputAt < 1200), awaitingResponse being its value before the
\* re-evaluation; working changes at no other step, except that teardown sets
\* it to false
C22_WorkingFormula ==
  /\ [][Reevaluated =>
          isWorkingRef' = (\/ (termAlive /\ markerVisible)
                           \/ now - lastBusySignalAtRef < 1900
                           \/ (awaitingResponseRef /\ now - lastOutputAtRef < 1200))]_vars
  /\ [][(~Reevaluated /\ isWorkingRef' # isWorkingRef) =>
          (lastEvent' = "teardown" /\ ~isWorkingRef')]_vars

\* a re-evaluation with no marker and no recent busy signal: working is true
\* because a response is awaited and output is recent
C22_Witness ==
  /\ lastEvent = "sync"
  /\ isWorkingRef
  /\ ~markerVisible
  /\ ~GraceOpen
  /\ IdleOpen

\* C23: a re-evaluation never throws: when reading the visible lines fails,
\* it completes and working is false
C23_ReadErrorMeansIdle ==
  [][lastEvent' # "throw"]_vars

\* this step is the onData handler, or the pty:data listener taking a chunk
Typed == lastEvent' \in InputKinds /\ now' = now
Received == lastEvent' \in {"marker", "output"} /\ now' = now

\* C28: input with Ctrl-C clears awaitingResponse and sets lastBusySignalAt to
\* 0, leaving lastOutputAt; input with a carriage return and no Ctrl-C sets
\* awaitingResponse and lastOutputAt = now, leaving lastBusySignalAt; input
\* with both is handled as Ctrl-C only; any other input leaves all three
C28_InputUpdatesRefs ==
  [][Typed =>
       IF lastEvent' \in {"interrupt", "interrupt-enter"}
       THEN /\ awaitingResponseRef' = FALSE
            /\ lastBusySignalAtRef' = 0
            /\ lastOutputAtRef' = lastOutputAtRef
       ELSE IF lastEvent' = "enter"
       THEN /\ awaitingResponseRef' = TRUE
            /\ lastOutputAtRef' = now
            /\ lastBusySignalAtRef' = lastBusySignalAtRef
       ELSE /\ awaitingResponseRef' = awaitingResponseRef
            /\ lastOutputAtRef' = lastOutputAtRef
            /\ lastBusySignalAtRef' = lastBusySignalAtRef]_vars

\* input with both Ctrl-C and a carriage return, typed later than the last
\* output: lastOutputAt is not moved to now
C28_Witness ==
  /\ lastEvent = "interrupt-enter"
  /\ ~awaitingResponseRef
  /\ lastBusySignalAtRef = 0
  /\ lastOutputAtRef > 0
  /\ lastOutputAtRef < now

\* C29: every output chunk of the pane sets lastOutputAt = now; it sets
\* lastBusySignalAt = now when the stripped chunk has "esc to interrupt" or a
\* busy word, or the raw chunk has a carriage return and no line feed, and
\* leaves it otherwise; awaitingResponse is not changed
C29_ChunkUpdatesRefs ==
  [][Received =>
       /\ lastOutputAtRef' = now
       /\ lastBusySignalAtRef' =
            IF \/ lastChunk'.marker
               \/ lastChunk'.busyWord
               \/ (lastChunk'.cr /\ ~lastChunk'.nl)
            THEN now ELSE lastBusySignalAtRef
       /\ awaitingResponseRef' = awaitingResponseRef]_vars

\* a chunk of text ending in a bare carriage return, later than the last
\* busy signal, is stamped as a busy signal
C29_Witness ==
  /\ lastEvent = "output"
  /\ lastChunk.cr /\ ~lastChunk.nl /\ ~lastChunk.blank
  /\ now > StartTime
  /\ lastBusySignalAtRef = now
  /\ lastOutputAtRef = now

\* C30: a re-evaluation clears awaitingResponse when it was true, the marker
\* is not visible and now - lastOutputAt >= 1200, and leaves it in every other
\* case; it changes neither lastOutputAt nor lastBusySignalAt
C30_SyncClearsAwaiting ==
  [][Reevaluated =>
       /\ awaitingResponseRef' =
            IF /\ awaitingResponseRef
               /\ ~(termAlive /\ markerVisible)
               /\ now - lastOutputAtRef >= 1200
            THEN FALSE ELSE awaitingResponseRef
       /\ lastOutputAtRef' = lastOutputAtRef
       /\ lastBusySignalAtRef' = lastBusySignalAtRef]_vars

\* a re-evaluation 1200 ms or more after the last output, without marker,
\* after an Enter: awaitingResponse is false and working with it
C30_Witness ==
  /\ lastEvent = "sync"
  /\ lastOutputAtRef > 0
  /\ now - lastOutputAtRef >= AGENT_STREAM_IDLE_MS
  /\ lastBusySignalAtRef = 0
  /\ ~markerVisible
  /\ ~awaitingResponseRef
  /\ ~isWorkingRef

\* ------------------------------------------------------------------------
\* The busy classifier under the browser's scheduling: time passes, a due
\* timer callback and a requested animation frame callback run. Events
\* stop early enough for the delayed re-check of the last one to come due
\* before the clock of the model ends; re-evaluations read the buffer
\* without error
\* ------------------------------------------------------------------------
RecheckTicks == (AGENT_RECHECK_MS + TickMs - 1) \div TickMs

EventInTime == now + RecheckTicks * TickMs <= StartTime + MaxElapsed

NextBusyLive ==
  \/ \E kind \in InputKinds : EventInTime /\ OnData(kind)
  \/ \E chunk \in Chunks : EventInTime /\ OnPtyData(chunk)
  \/ RafFires
  \/ TimeoutFires
  \/ Tick
  \/ Teardown

SpecBusyLive ==
  /\ InitBusy
  /\ [][NextBusyLive]_vars
  /\ WF_vars(Tick)
  /\ WF_vars(TimeoutFires)
  /\ WF_vars(RafFires)

\* this step is the callback of the delayed re-check
DelayedRecheck == Reevaluated /\ signalSyncTimeoutRef # NoTimer /\ signalSyncTimeoutRef' = NoTimer

LPanes == 1..MaxListenPanes

\* mutant of ptyDataListener: the payload id is not compared
ptyDataListener_unfiltered(id, payloadId) == TRUE

\* the listener of pane id takes an event (1048)
ptyDataListener(id, payloadId) == payloadId = id

\* the transport hands an event to every listener registered at that moment,
\* once, in the order of emission, and keeps nothing for later listeners
delivered(registered) == registered

\* the effect of pane p runs: setup() up to `await listen(...)` (921-1047)
SetupStarts(p) ==
  /\ setupAt[p] = "unmounted"
  /\ setupAt' = [setupAt EXCEPT ![p] = "awaiting"]
  /\ UNCHANGED <<paneCleaned, listeners, cleanupLog, emitted, written,
                 listenedFrom, listenedTo>>
  /\ UNCHANGED <<gridVars, createVars, orchVars, busyVars>>

\* enqueuePtyCreate rejects: setup returns before listen (980-986)
SetupFails(p) ==
  /\ setupAt[p] = "awaiting"
  /\ setupAt' = [setupAt EXCEPT ![p] = "failed"]
  /\ UNCHANGED <<paneCleaned, listeners, cleanupLog, emitted, written,
                 listenedFrom, listenedTo>>
  /\ UNCHANGED <<gridVars, createVars, orchVars, busyVars>>

\* `unlisten = await listen("pty:data", ...)` resolves (1047-1059), whether
\* or not the cleanup has run in the meantime
ListenResolves(p) ==
  /\ setupAt[p] = "awaiting"
  /\ setupAt' = [setupAt EXCEPT ![p] = "listening"]
  /\ listeners' = listeners \cup {p}
  /\ listenedFrom' = [listenedFrom EXCEPT ![p] = Len(emitted)]
  /\ UNCHANGED <<paneCleaned, cleanupLog, emitted, written, listenedTo>>
  /\ UNCHANGED <<gridVars, createVars, orchVars, busyVars>>

\* the backend emits a pty:data event with payload id; the listeners that
\* take it call term.write (1050)
EmitPtyData(id) ==
  /\ Len(emitted) < MaxChunks
  /\ setupAt[id] # "unmounted"
  /\ emitted' = Append(emitted, id)
  /\ written' = [p \in LPanes |->
                   IF p \in delivered(listeners) /\ ptyDataListener(p, id)
                   THEN Append(written[p], Len(emitted) + 1)
                   ELSE written[p]]
  /\ UNCHANGED <<setupAt, paneCleaned, listeners, cleanupLog, listenedFrom,
                 listenedTo>>
  /\ UNCHANGED <<gridVars, createVars, orchVars, busyVars>>

\* the effect cleanup of pane p (1085-1114): `if (unlisten) unlisten()`
\* (1093), term.dispose() (1105), invoke("pty_close") (1113)
Cleanup(p) ==
  /\ setupAt[p] # "unmounted"
  /\ ~paneCleaned[p]
  /\ paneCleaned' = [paneCleaned EXCEPT ![p] = TRUE]
  /\ IF setupAt[p] = "listening"
     THEN /\ listeners' = listeners \ {p}
          /\ listenedTo' = [listenedTo EXCEPT ![p] = Len(emitted)]
          /\ cleanupLog' = [cleanupLog EXCEPT ![p] = <<"unlisten", "dispose", "pty_close">>]
     ELSE /\ cleanupLog' = [cleanupLog EXCEPT ![p] = <<"dispose", "pty_close">>]
          /\ UNCHANGED <<listeners, listenedTo>>
  /\ UNCHANGED <<setupAt, emitted, written, listenedFrom>>
  /\ UNCHANGED <<gridVars, createVars, orchVars, busyVars>>

InitListen == PaneIdle /\ GridIdle /\ CreateIdle /\ OrchIdle /\ BusyIdle

NextListen ==
  \/ \E p \in LPanes : SetupStarts(p)
  \/ \E p \in LPanes : SetupFails(p)
  \/ \E p \in LPanes : ListenResolves(p)
  \/ \E id \in LPanes : EmitPtyData(id)
  \/ \E p \in LPanes : Cleanup(p)

SpecListen == InitListen /\ [][NextListen]_vars

\* the same with promises that settle: a setup that awaits goes on, with a
\* registered listener or with a rejected creation
SpecListenLive ==
  /\ InitListen
  /\ [][NextListen]_vars
  /\ \A p \in LPanes : WF_vars(ListenResolves(p) \/ SetupFails(p))

\* C34: after the teardown of a pane, there comes a point from which no
\* pty:data listener of that pane is registered any more, also when the
\* teardown ran before the listener registration of setup had completed
C34_NoListenerAfterTeardown ==
  \A p \in LPanes : <>[](paneCleaned[p] => p \notin listeners)

\* position of a call in a cleanup log, 0 when it is not there
CallAt(log, call) ==
  IF \E i \in 1..Len(log) : log[i] = call
  THEN CHOOSE i \in 1..Len(log) : log[i] = call
  ELSE 0

\* C25: in the teardown of a pane, pty_close is issued before the pane's
\* listener is deregistered from the transport
C25_CloseBeforeDeregister ==
  \A p \in LPanes :
    CallAt(cleanupLog[p], "unlisten") > 0 =>
      CallAt(cleanupLog[p], "pty_close") < CallAt(cleanupLog[p], "unlisten")

\* the events with payload id emitted after position from, up to position to
EmittedFor(id, from, to) ==
  SelectSeq([i \in 1..Len(emitted) |-> i],
            LAMBDA i : i > from /\ i <= to /\ emitted[i] = id)

\* C26: what a pane's terminal was written is, in order and once each, the
\* events of its own id emitted while its listener was registered: nothing
\* of another id, nothing emitted before the registration, nothing dropped
\* or repeated when other panes register or remove their listeners
C26_OwnChunksInOrder ==
  \A p \in LPanes :
    written[p] =
      IF setupAt[p] # "listening" THEN <<>>
      ELSE EmittedFor(p, listenedFrom[p],
                      IF p \in listeners THEN Len(emitted) ELSE listenedTo[p])

\* pane p missed an event emitted before its listener was registered, took a
\* later one, another pane's listener was removed, and p took one more event
C26_Witness ==
  \E p, q \in LPanes :
    /\ p # q
    /\ listenedFrom[p] >= 1
    /\ emitted[1] = p
    /\ paneCleaned[q]
    /\ CallAt(cleanupLog[q], "unlisten") > 0
    /\ Len(written[p]) >= 2
    /\ written[p][Len(written[p])] > listenedTo[q]
    /\ \E i \in 1..Len(emitted) : emitted[i] = q

\* ------------------------------------------------------------------------
\* Claims on the pane list of the active tab
\* ------------------------------------------------------------------------
CloseOps == {"w", "palette-close", "close-button"}

\* the pane counts getGrid is called with when the tabs are rendered
getGridCounts ==
  {Len(tabs[i].snapshot.panes) :
     i \in {j \in 1..Len(tabs) : /\ tabs[j].snapshot # NullSnapshot
                                 /\ callsGetGrid(tabs[j].snapshot)}}

\* C6: the active tab never holds more than 36 panes (a split requested at 36
\* panes, by keystroke or from the palette, adds none), and getGrid is never
\* called with a count above 36
C6_AtMost36Panes ==
  /\ Len(panes) <= MAX_SPLITS * MAX_SPLITS
  /\ \A count \in getGridCounts : count <= MAX_SPLITS * MAX_SPLITS

\* C27: Ctrl+V pressed in a ready project with fewer than 36 panes in the
\* active tab splits vertically: one pane more, placed after the active pane,
\* and the last split is vertical
C27_CtrlVSplitsVertical ==
  [][(lastOp'[1] = "v" /\ isProjectReady /\ Len(panes) < MAX_SPLITS * MAX_SPLITS) =>
       /\ Len(panes') = Len(panes) + 1
       /\ findIndex(panes', activeId) = findIndex(panes, activeId)
       /\ lastSplit' = "vertical"]_vars

\* the panes that are in some tab: the live panes of the active tab and the
\* panes of the other tabs' snapshots
PanesInTabs ==
  PaneIds(panes) \cup
  UNION {SnapshotPaneIds(tabs[i].snapshot) :
           i \in {j \in 1..Len(tabs) : tabs[j].id # activeTabId}}

\* C24: when a step removes a pane of a launched workspace from its tab (pane
\* close, deletion of its tab, relaunch in the active tab), one pty_close is
\* issued for that pane's id in that step and none for a pane that stays in a
\* tab; no id ever gets a second pty_close, and none is issued for a pane
\* that is in a tab
C24_CloseOnRemoval ==
  /\ [][isProjectReady =>
          \A id \in PanesInTabs :
            closeCount(ptyCloses', id) =
              closeCount(ptyCloses, id) + (IF id \in PanesInTabs' THEN 0 ELSE 1)]_vars
  /\ [](\A id \in DOMAIN ptyCloses : ptyCloses[id] = 1 /\ id \notin PanesInTabs)

\* a workspace was launched again in the active tab while a second tab is
\* held in the background: the replaced panes got their pty_close, the
\* background tab's panes are still mounted
C24_Witness ==
  /\ lastOp[1] = "launch"
  /\ Len(tabs) = 2
  /\ ptyCloses # <<>>
  /\ PaneIds(panes) # mountedPanes
  /\ mountedPanes = PanesInTabs

\* C37: a switch of the active tab issues no pty_close and mounts no pane
\* anew (a mount is what issues a pty_create): the panes of the tab that is
\* left and of the tab that is entered stay mounted, each with its session
\* and its listener
C37_TabSwitchKeepsSessions ==
  [][(lastOp'[1] = "select-tab" /\ activeTabId' # activeTabId) =>
       /\ ptyCloses' = ptyCloses
       /\ mountedPanes' = mountedPanes
       /\ PaneIds(panes) \subseteq mountedPanes'
       /\ PaneIds(panes') \subseteq mountedPanes
       /\ PaneIds(panes') \cap PaneIds(panes) = {}]_vars

\* the first tab, with two panes, was switched back to while the second tab
\* holds panes of its own; no pty_close was ever issued
C37_Witness ==
  /\ lastOp[1] = "select-tab"
  /\ Len(tabs) = 2
  /\ activeTabId = tabs[1].id
  /\ Len(panes) >= 2
  /\ Cardinality(mountedPanes) > Len(panes)
  /\ PanesInTabs = mountedPanes
  /\ ptyCloses = <<>>

\* C7: the pane list of the active tab is never empty, and a close request
\* that finds exactly one pane leaves the pane list as it is
C7_NeverEmpty ==
  /\ [](Len(panes) >= 1)
  /\ [][(lastOp'[1] \in CloseOps /\ Len(panes) = 1) => panes' = panes]_vars

\* Ctrl+W was pressed in a workspace with one pane, which is still there
C7_Witness ==
  /\ isProjectReady
  /\ lastOp = <<"w", 1>>
  /\ Len(panes) = 1

\* C8: once a handler and the repair effect have run, activeId is the id of a
\* pane of the active tab; a close that removes the active pane leaves
\* activeId on the first remaining pane, any other close leaves it alone
C8_ActiveIdInPanes ==
  /\ [](activeId \in PaneIds(panes))
  /\ [][lastOp'[1] \in CloseOps =>
          activeId' = IF activeId \in PaneIds(panes') THEN activeId
                      ELSE panes'[1].id]_vars

\* the active pane of three was closed from the palette and activeId moved to
\* the first of the two that remain
C8_Witness ==
  /\ lastOp = <<"palette-close", 3>>
  /\ Len(panes) = 2
  /\ activeId = panes[1].id

\* the snapshots the tab surfaces are rendered from (3538-3549)
RenderedSnapshots ==
  {tabs[i].snapshot : i \in {j \in 1..Len(tabs) : tabs[j].snapshot # NullSnapshot}}

\* the layouts with the id a snapshot pins, wide enough for its panes
PinnedFits(snapshot) ==
  {GRID_LAYOUT_OPTIONS[k] : k \in
     {j \in 1..Len(GRID_LAYOUT_OPTIONS) :
        /\ GRID_LAYOUT_OPTIONS[j].id = snapshot.gridLayoutId
        /\ Len(snapshot.panes)
             <= GRID_LAYOUT_OPTIONS[j].rows * GRID_LAYOUT_OPTIONS[j].cols}}

\* C13: a tab with a pinned layout and no more panes than its rows*cols is
\* rendered with exactly the pinned rows and cols; a tab with more panes than
\* the pinned capacity, or with nothing pinned, is rendered with
\* getGrid(pane count, last split orientation)
C13_PinnedGrid ==
  \A snapshot \in RenderedSnapshots :
    IF PinnedFits(snapshot) # {}
    THEN \A layout \in PinnedFits(snapshot) :
           tabGrid(snapshot) = [rows |-> layout.rows, cols |-> layout.cols]
    ELSE tabGrid(snapshot) = getGrid(Len(snapshot.panes), snapshot.lastSplit)

\* a 2x2 workspace with three panes left is still rendered 2x2, where getGrid
\* would give a strip of three
C13_Witness ==
  /\ isProjectReady
  /\ fixedGridLayoutId = "grid-2x2"
  /\ Len(panes) = 3
  /\ \E i \in 1..Len(tabs) :
       /\ tabs[i].id = activeTabId
       /\ tabs[i].snapshot # NullSnapshot
       /\ tabGrid(tabs[i].snapshot) = [rows |-> 2, cols |-> 2]
       /\ tabGrid(tabs[i].snapshot) # getGrid(3, lastSplit)

\* the orientation a split request asks for
SplitOps ==
  [op \in {"d", "b", "split-horizontal", "split-vertical"} |->
     IF op \in {"d", "split-horizontal"} THEN "horizontal" ELSE "vertical"]

\* every pane id in use: the live panes and the panes of the tab snapshots
AllPaneIds ==
  PaneIds(panes) \cup
    UNION {PaneIds(snapshot.panes) : snapshot \in RenderedSnapshots}

\* C14: a split on a ready tab with k < 36 panes yields k+1 panes: one new
\* pane with an id no existing pane has sits right after the active pane, the
\* other panes keep their ids and order, and lastSplit is the orientation of
\* the split
C14_SplitInsertsAfterActive ==
  [][(/\ lastOp'[1] \in DOMAIN SplitOps
      /\ isProjectReady
      /\ Len(panes) < MAX_SPLITS * MAX_SPLITS) =>
       \E k \in 1..Len(panes) :
         /\ panes[k].id = activeId
         /\ Len(panes') = Len(panes) + 1
         /\ \A j \in 1..k : panes'[j].id = panes[j].id
         /\ panes'[k + 1].id \notin AllPaneIds
         /\ \A j \in (k + 1)..Len(panes) : panes'[j + 1].id = panes[j].id
         /\ lastSplit' = SplitOps[lastOp'[1]]]_vars

\* Ctrl+D with the first of two panes active: the new pane is the second of
\* three
C14_Witness ==
  /\ lastOp = <<"d", 2>>
  /\ Len(panes) = 3
  /\ activeId = panes[1].id
  /\ panes[2].id = nextPaneId - 1
  /\ lastSplit = "horizontal"

C31_CtrlWClosesUpTo36 ==
  [][(/\ lastOp'[1] = "w"
      /\ isProjectReady
      /\ Len(panes) >= 2
      /\ Len(panes) <= MAX_SPLITS * MAX_SPLITS) =>
       /\ panes' = SelectSeq(panes, LAMBDA pane : pane.id # activeId)
       /\ Len(panes') = Len(panes) - 1]_vars

snapshotOf(ts, tabId) == ts[tabIndex(ts, tabId)].snapshot

\* the live state a snapshot records
recordsLive(snapshot, live) ==
  /\ snapshot # NullSnapshot
  /\ snapshot.panes = live.panes
  /\ snapshot.activeId = live.activeId
  /\ snapshot.lastSplit = live.lastSplit
  /\ snapshot.gridLayoutId = (IF live.fixedGridLayoutId = Null THEN Undefined
                              ELSE live.fixedGridLayoutId)
  /\ snapshot.projectPath = live.projectPath
  /\ snapshot.workspaceName = live.workspaceName

LiveAfter ==
  [Live EXCEPT !.projectPath = projectPath', !.workspaceName = workspaceName',
               !.isProjectReady = isProjectReady', !.panes = panes',
               !.activeId = activeId', !.lastSplit = lastSplit',
               !.fixedGridLayoutId = fixedGridLayoutId']

\* the tab the step removes is the active one
ActiveTabDeleted == lastOp'[1] = "delete-tab" /\ activeTabId \notin TabIds'

\* the tab the step removes is not the active one
InactiveTabDeleted ==
  lastOp'[1] = "delete-tab" /\ TabIds' # TabIds /\ activeTabId \in TabIds'

\* C39: the tab list is never empty and activeTabId is the id of a tab in it;
\* a delete that finds one tab changes nothing; a delete of the active tab
\* activates its left neighbour (the first remaining tab when it was the
\* leftmost) and makes that tab's snapshot the live state; a delete of an
\* inactive tab leaves the active tab id, the live panes, the active pane id
\* and the orientation as they were
C39_DeleteTab ==
  /\ [](Len(tabs) >= 1 /\ activeTabId \in TabIds)
  /\ [][(lastOp'[1] = "delete-tab" /\ Len(tabs) = 1) =>
          /\ tabs' = tabs /\ activeTabId' = activeTabId
          /\ Live = LiveAfter]_vars
  /\ [][(lastOp'[1] = "delete-tab" /\ Len(tabs) > 1) =>
          /\ Len(tabs') = Len(tabs) - 1
          /\ \A i \in 1..Len(tabs') : tabs'[i].id \in TabIds]_vars
  /\ [][ActiveTabDeleted =>
          LET index == tabIndex(tabs, activeTabId)
          IN  /\ activeTabId' = IF index > 1 THEN tabs[index - 1].id ELSE tabs[2].id
              /\ activeTabId' = tabs'[IF index > 1 THEN index - 1 ELSE 1].id
              /\ recordsLive(snapshotOf(tabs, activeTabId'), LiveAfter)
              /\ isProjectReady']_vars
  /\ [][InactiveTabDeleted =>
          /\ activeTabId' = activeTabId
          /\ panes' = panes
          /\ activeId' = activeId
          /\ lastSplit' = lastSplit]_vars

\* the third of three tabs was active and was deleted: the second tab, with
\* two panes the second of which is active, is live and the first tab is
\* still held in the background
C39_Witness ==
  /\ lastOp[1] = "delete-tab"
  /\ Len(tabs) = 2
  /\ nextTabId = 4
  /\ activeTabId = tabs[2].id
  /\ activeTabId = 2
  /\ Len(panes) = 2
  /\ activeId = panes[2].id
  /\ lastSplit = "vertical"

\* C18: whenever the active tab is ready, once the effects have run, the
\* active tab's snapshot in the tab list and the record under the
\* last-session key both record the live state (updatedAt aside); a step
\* does not modify the snapshot of a tab that is inactive before and after
C18_SnapshotFollowsLive ==
  /\ [](isProjectReady =>
          /\ recordsLive(snapshotOf(tabs, activeTabId), Live)
          /\ recordsLive(storedSession, Live))
  /\ [][\A i \in 1..Len(tabs) :
          (/\ tabs[i].id \notin {activeTabId, activeTabId'}
           /\ \E j \in 1..Len(tabs') : tabs'[j].id = tabs[i].id) =>
            snapshotOf(tabs', tabs[i].id) = tabs[i].snapshot]_vars

\* with two tabs open, a click made the second of two panes the active one;
\* the snapshot of the active tab and the stored session record it
C18_Witness ==
  /\ isProjectReady
  /\ lastOp = <<"select-pane", 2>>
  /\ activeId = panes[2].id
  /\ Len(tabs) = 2
  /\ snapshotOf(tabs, activeTabId).activeId = activeId
  /\ storedSession # NullSnapshot
  /\ storedSession.activeId = activeId
  /\ \E i \in 1..Len(tabs) :
       tabs[i].id # activeTabId /\ tabs[i].snapshot # NullSnapshot

\* ------------------------------------------------------------------------
\* Claims on the creation queue
\* ------------------------------------------------------------------------
PaneCallsInFlight == {c \in inflight : c[1] = "pane"}

\* number of pty_create invocations issued for pane p
NumCreates(p) == Cardinality({i \in 1..Len(createLog) : createLog[i] = p})

\* position in createLog of the first pty_create of pane p (0: none yet)
FirstCreate(p) ==
  IF NumCreates(p) = 0 THEN 0
  ELSE CHOOSE i \in 1..Len(createLog) :
         /\ createLog[i] = p
         /\ \A k \in 1..(i - 1) : createLog[k] # p

Settled(p) == pc[p] \in {"ready", "failed"}

\* C1: at most one pty_create issued by pane start-up is in flight at any
\* moment, however many panes have submitted their creation task.
C1_OnePaneCreateInFlight == Cardinality(PaneCallsInFlight) <= 1

C1_Witness ==
  /\ Len(ptyCreateQueue) >= 3
  /\ Cardinality(PaneCallsInFlight) = 1

\* C2: every pty_create in flight, of any caller, was issued by the task
\* the creation queue is running, so no two pty_create calls overlap.
C2_OnlyQueueCreates ==
  /\ Cardinality(inflight) <= 1
  /\ \A c \in inflight :
       /\ c[1] = "pane"
       /\ ptyCreateQueue # <<>>
       /\ c[2] = Head(ptyCreateQueue)

\* C3: a creation request makes at most 3 pty_create attempts and stops at
\* the first success; after the third failure it is rejected, the pane shows
\* the error state, and no pty_create is issued for the pane any more (the
\* count of a failed pane is 3 in every later state).
C3_BoundedRetry ==
  \A p \in CPanes :
    /\ NumCreates(p) <= 3
    /\ failures[p] <= NumCreates(p)
    /\ NumCreates(p) - failures[p] <= 1
    /\ pc[p] = "ready" =>
         /\ failures[p] = NumCreates(p) - 1
         /\ PaneCall(p) \notin inflight
    /\ pc[p] = "failed" =>
         /\ NumCreates(p) = 3
         /\ failures[p] = 3
         /\ PaneCall(p) \notin inflight
         /\ ~disposed[p] => error[p]
    /\ error[p] => pc[p] = "failed"

C3_Witness ==
  \E p, q \in CPanes :
    /\ pc[p] = "failed" /\ error[p] /\ NumCreates(p) = 3
    /\ pc[q] = "ready" /\ NumCreates(q) = 1
    /\ ptyCreateQueue = <<>> /\ inflight = {}

\* C4: a request rejected after its attempts affects only its own pane: a
\* pane is in the error state only after three failed attempts of its own,
\* and every settled task, enqueued before or after a rejected one, was run.
C4_FailureIsolated ==
  \A p \in CPanes :
    /\ error[p] => failures[p] = 3
    /\ Settled(p) => NumCreates(p) >= 1
    /\ (Settled(p) /\ failures[p] < 3) => pc[p] = "ready"

C4_Witness ==
  /\ Len(enqueueLog) >= 3
  /\ pc[enqueueLog[1]] = "ready" /\ ~error[enqueueLog[1]]
  /\ pc[enqueueLog[2]] = "failed" /\ error[enqueueLog[2]]
  /\ pc[enqueueLog[3]] = "ready" /\ ~error[enqueueLog[3]]

\* C5: tasks are served in FIFO order: when A's task was passed to
\* enqueuePtyCreate before B's, A's first pty_create is issued before B's.
C5_Fifo ==
  \A i, j \in 1..Len(enqueueLog) :
    (i < j /\ FirstCreate(enqueueLog[j]) # 0) =>
      /\ FirstCreate(enqueueLog[i]) # 0
      /\ FirstCreate(enqueueLog[i]) < FirstCreate(enqueueLog[j])

C5_Witness ==
  /\ Len(enqueueLog) >= 2
  /\ pc[enqueueLog[1]] = "failed"
  /\ FirstCreate(enqueueLog[2]) > FirstCreate(enqueueLog[1])
  /\ FirstCreate(enqueueLog[1]) > 0
  /\ enqueueLog[1] > enqueueLog[2]

\* the pty_create invocations issued so far for pane p
CreatesIssued(log, p) == Len(SelectSeq(log, LAMBDA q : q = p))

\* C33: once the cleanup of a pane has run (pty_close issued for its id), no
\* pty_create is issued for that id, whether its task was still waiting in
\* the queue or between two attempts
C33_NoCreateAfterClose ==
  [][\A p \in CPanes :
       disposed[p] => CreatesIssued(createLog', p) = CreatesIssued(createLog, p)]_vars

\* the request of pane p is between its first pty_create and its settling
Running(p) == pc[p] \in {"creating", "backoff"}

\* C35: the attempts of different creation requests never interleave: while
\* a request is between its first pty_create and its settling (its 150 ms
\* backoffs included) every pty_create issued by the queue is its own, so the
\* attempts of one request are consecutive in the order of issue.
C35_NoInterleaving ==
  /\ \A p, q \in CPanes : (Running(p) /\ Running(q)) => p = q
  /\ \A p \in CPanes :
       Running(p) => (createLog # <<>> /\ createLog[Len(createLog)] = p)
  /\ \A i, k \in 1..Len(createLog) :
       (i < k /\ createLog[i] = createLog[k]) =>
         \A j \in i..k : createLog[j] = createLog[i]

C35_Witness ==
  /\ Len(createLog) >= 5
  /\ createLog[1] = createLog[2]
  /\ createLog[2] = createLog[3]
  /\ createLog[4] # createLog[3]
  /\ createLog[5] = createLog[4]
  /\ pc[createLog[1]] = "failed"
  /\ pc[createLog[4]] = "creating"
  /\ Len(ptyCreateQueue) >= 2

\* SpecCreate with the scheduling the claim assumes: a settled promise runs
\* its reaction (StartTask), every timer fires (BackoffElapsed), and every
\* pty_create that was invoked returns (CreateReturns, success or failure)
SpecCreateLive ==
  /\ InitCreate
  /\ [][NextCreate]_vars
  /\ \A p \in CPanes :
       /\ WF_vars(StartTask(p))
       /\ WF_vars(BackoffElapsed(p))
       /\ WF_vars(\E ok \in BOOLEAN : CreateReturns(p, ok))

\* C36: when every pty_create that is invoked returns, every task passed to
\* enqueuePtyCreate is started (its first pty_create is issued) and settles
\* (pane ready or failed), whatever was queued before it and however the
\* tasks before it ended: the chain never stops serving.
C36_QueueProgress ==
  \A p \in CPanes :
    /\ (pc[p] = "queued") ~> (CreatesIssued(createLog, p) >= 1)
    /\ (pc[p] = "queued") ~> Settled(p)

C36_Witness ==
  /\ Len(enqueueLog) = MaxCreatePanes
  /\ \A p \in CPanes : Settled(p)
  /\ ptyCreateQueue = <<>>
  /\ pc[enqueueLog[1]] = "failed"
  /\ pc[enqueueLog[2]] = "failed"
  /\ pc[enqueueLog[3]] = "ready"
  /\ CreatesIssued(createLog, enqueueLog[3]) = 2

\* the startup-command writes made to the session of pane p
WritesFor(p) == SelectSeq(ptyWrites, LAMBDA w : w.id = p)

\* C38: the startup command of a pane is written to its session at most
\* once, only after a pty_create of that pane has succeeded, and the data
\* written is the command the launch allocated to that pane followed by a
\* carriage return; a pane whose creation failed, and a pane without a
\* command, gets no such write
C38_StartupCommandOnce ==
  \A p \in CPanes :
    /\ Len(WritesFor(p)) <= 1
    /\ WritesFor(p) # <<>> =>
         /\ startupCommand[p] \in AgentCommands
         /\ WritesFor(p)[1].data = <<Trim(startupCommand[p]), "\r">>
         /\ pc[p] = "ready"
         /\ NumCreates(p) - failures[p] = 1
         /\ PaneCall(p) \notin inflight
    /\ pc[p] = "failed" => WritesFor(p) = <<>>
    /\ startupCommand[p] = NoCommand => WritesFor(p) = <<>>

\* one pane got its command after a retry (and the executed set was cleared
\* since), a second pane with a command failed and got none
C38_Witness ==
  \E p, q \in CPanes :
    /\ pc[p] = "ready" /\ failures[p] = 1
    /\ Len(WritesFor(p)) = 1
    /\ p \notin startupCommandExecuted
    /\ pc[q] = "failed"
    /\ startupCommand[q] \in AgentCommands
    /\ WritesFor(q) = <<>>

\* C40: when stopServer completes for a server entry the entry is not
\* running and no pty_create is issued for it; from then on its run state
\* changes, and a pty_create is issued for it, only by a start the user asked
\* for, whether or not its autostart flag is set
C40_StoppedStaysStopped ==
  [][\A s \in Servers :
       /\ (closing[s] /\ ~closing'[s]) =>
            (runState'[s] = "stopped" /\ serverPtyId'[s] = serverPtyId[s])
       /\ (/\ lastServerEvent[s] = "stop"
           /\ (runState'[s] # "stopped" \/ serverPtyId'[s] # serverPtyId[s])) =>
            lastServerEvent'[s] = "user-start"]_vars

\* ------------------------------------------------------------------------
\* SpecGrid: a pane count is drawn, getGrid is called for each preference
\* ------------------------------------------------------------------------
InitGrid ==
  /\ gCount \in 1..MaxCount
  /\ gResult = [o \in Orientations |-> NoGrid]
  /\ CreateIdle
  /\ BusyIdle
  /\ PaneIdle
  /\ OrchIdle

CallGetGrid(preferred) ==
  /\ gResult[preferred] = NoGrid
  /\ gResult' = [gResult EXCEPT ![preferred] = getGrid(gCount, preferred)]
  /\ UNCHANGED gCount
  /\ UNCHANGED <<createVars, orchVars, busyVars, paneVars>>

NextGrid == \E preferred \in Orientations : CallGetGrid(preferred)

SpecGrid == InitGrid /\ [][NextGrid]_vars

\* ------------------------------------------------------------------------
\* Claims on getGrid
\* ------------------------------------------------------------------------
FactorPairs(n) == {pr \in (1..n) \X (1..n) : pr[1] * pr[2] = n}

GridCalled(preferred) == gResult[preferred] # NoGrid

\* C9: for every N in 1..36 and both preferences getGrid returns rows*cols = N
\* with |rows - cols| minimal over all factor pairs of N.
C9_ExactMostSquare ==
  \A preferred \in Orientations :
    (GridCalled(preferred) /\ gCount <= MAX_SPLITS * MAX_SPLITS) =>
      /\ gResult[preferred].rows * gResult[preferred].cols = gCount
      /\ \A pr \in FactorPairs(gCount) :
           Abs(gResult[preferred].rows - gResult[preferred].cols)
             <= Abs(pr[1] - pr[2])

C9_Witness ==
  /\ gCount = 12
  /\ GridCalled("horizontal") /\ GridCalled("vertical")
  /\ gResult["horizontal"] = [rows |-> 4, cols |-> 3]

\* C10: for N in 1..36 horizontal gives rows >= cols, vertical gives
\* cols >= rows, the two results are transposes; N = 6 gives (3,2) / (2,3).
C10_Orientation ==
  (gCount <= MAX_SPLITS * MAX_SPLITS) =>
    /\ GridCalled("horizontal") =>
         gResult["horizontal"].rows >= gResult["horizontal"].cols
    /\ GridCalled("vertical") =>
         gResult["vertical"].cols >= gResult["vertical"].rows
    /\ (GridCalled("horizontal") /\ GridCalled("vertical")) =>
         /\ gResult["horizontal"].rows = gResult["vertical"].cols
         /\ gResult["horizontal"].cols = gResult["vertical"].rows
    /\ (gCount = 6 /\ GridCalled("horizontal")) =>
         gResult["horizontal"] = [rows |-> 3, cols |-> 2]
    /\ (gCount = 6 /\ GridCalled("vertical")) =>
         gResult["vertical"] = [rows |-> 2, cols |-> 3]

C10_Witness ==
  /\ gCount = 6
  /\ gResult["horizontal"] = [rows |-> 3, cols |-> 2]
  /\ gResult["vertical"] = [rows |-> 2, cols |-> 3]

Primes == {n \in 2..(MAX_SPLITS * MAX_SPLITS) : \A k \in 2..(n - 1) : n % k # 0}

\* C11: for every prime N <= 36 getGrid returns the strip (rows = N, cols = 1)
\* with horizontal preference and (rows = 1, cols = N) with vertical preference
C11_PrimeStrip ==
  gCount \in Primes =>
    /\ GridCalled("horizontal") =>
         gResult["horizontal"] = [rows |-> gCount, cols |-> 1]
    /\ GridCalled("vertical") =>
         gResult["vertical"] = [rows |-> 1, cols |-> gCount]

\* getGrid was called for 7 panes with both preferences
C11_Witness ==
  /\ gCount = 7
  /\ gResult["horizontal"] = [rows |-> 7, cols |-> 1]
  /\ gResult["vertical"] = [rows |-> 1, cols |-> 7]

\* C12: for every pane count above 36 getGrid returns (rows = 6, cols = 6)
\* for both preferences
C12_ClampedTo6x6 ==
  \A preferred \in Orientations :
    (GridCalled(preferred) /\ gCount > MAX_SPLITS * MAX_SPLITS) =>
      gResult[preferred] = [rows |-> MAX_SPLITS, cols |-> MAX_SPLITS]

====
